---- MODULE Spec2Model ----
(***************************************************************************)
(* Verification model of the trading pipeline of go-tele:                  *)
(*   - the order executor and its timeout sweeper / dedup reaper           *)
(*     (internal/trading/executor.go),                                     *)
(*   - the earlier executor that persists Position and Order rows          *)
(*     (unnamed/part_009),                                                 *)
(*   - the account store (unnamed/part_007) behind the dashboard handlers  *)
(*     (unnamed/part_013), and the settings handler of the dashboard,      *)
(*   - the signal parser (internal/trading/executor.go 554-659) and the    *)
(*     engine that feeds it (internal/trading/engine.go).                  *)
(*                                                                         *)
(* Numbers.  The code computes in float64.  The model computes the same    *)
(* expressions exactly, over rationals [n, d] (d > 0): quantities are      *)
(* counted in quantity units, prices in price units, USDT amounts in       *)
(* price unit * quantity unit.  Percentages are rationals over PctDen.     *)
(* Time is counted in hours; the clock advances ClockStep hours at a time. *)
(***************************************************************************)
EXTENDS Integers, Sequences, FiniteSets, TLC

\* ------------------------------------------------------------------ bounds
MaxClock     == 72      \* hours of process lifetime explored
ClockStep    == 24      \* hours the clock advances per Tick
MaxSignals   == 3       \* ExecuteSignal calls per behaviour
MaxPrice     == 4       \* ticker prices 1..MaxPrice (sizing specification)
MaxAmount    == 6       \* order amounts 1..MaxAmount (sizing specification)
MaxStep      == 2       \* stepSize / tickSize values 0..MaxStep
MaxMinQty    == 3       \* minQty values 0..MaxMinQty
MaxAccounts  == 3       \* rows ever inserted into binance_accounts
PctDen       == 10      \* target/stop-loss fractions are k/PctDen

\* ------------------------------------------------------- program constants
DedupWindow    == 48    \* 48*time.Hour
MaxLeverage    == 125

NoTime == -1            \* key absent from recentSignals
NoStep == -1            \* StepSize / TickSize / MinNotional == ""

\* signal symbols; the exchange lists Listed only
Symbols == {"BTCUSDT", "XYZUSDT"}
Listed  == {"BTCUSDT"}

\* --------------------------------------------------------------- rationals
Rat(n, d) == [n |-> n, d |-> d]
RatInt(k) == [n |-> k, d |-> 1]
RatLT(a, b) == a.n * b.d < b.n * a.d
RatEQ(a, b) == a.n * b.d = b.n * a.d
RatMul(a, b) == [n |-> a.n * b.n, d |-> a.d * b.d]
\* math.Floor of a rational with positive denominator
RatFloor(a) == a.n \div a.d

Pow10(k) == IF k <= 0 THEN 1 ELSE IF k = 1 THEN 10 ELSE IF k = 2 THEN 100 ELSE 1000

\* ------------------------------------------------------ executor: rounding
\* roundToPrecision: float64(int64(value*multiplier)) / multiplier; int64()
\* truncates toward zero.
TruncDiv(n, d) == IF n >= 0 THEN n \div d ELSE -((-n) \div d)

roundToPrecision(value, precision) ==
    LET multiplier == Pow10(precision)
    IN  Rat(TruncDiv(value.n * multiplier, value.d), multiplier)

\* roundToStepSize without the two bound checks
roundToStepSizeUnclamped(value, stepSize, minQty, maxQty) ==
    IF stepSize <= 0 THEN value
    ELSE RatInt(((2 * value.n + value.d * stepSize) \div (2 * value.d * stepSize)) * stepSize)

\* roundToStepSize: a stepSize that does not parse or is zero returns the
\* value unchanged; otherwise floor(value/step + 0.5) * step, then the two
\* clamps in the order of the code.  step = 0 stands for "0" and for a
\* string that does not parse; min/max = 0 likewise (the parse error of
\* min/max is dropped by the code, leaving 0).
roundToStepSize(value, stepSize, minQty, maxQty) ==
    IF stepSize <= 0 THEN value
    ELSE LET rounded == ((2 * value.n + value.d * stepSize) \div (2 * value.d * stepSize)) * stepSize
             lo      == IF minQty > 0 /\ rounded < minQty THEN minQty ELSE rounded
             hi      == IF maxQty > 0 /\ lo > maxQty THEN maxQty ELSE lo
         IN  RatInt(hi)

\* ------------------------------------------------------- executor: filters
NoFilter == [filterType |-> "NONE", stepSize |-> NoStep, minQty |-> 0, maxQty |-> 0,
             tickSize |-> NoStep, minPrice |-> 0, maxPrice |-> 0, minNotional |-> NoStep]

LotFilter(type, step, min, max) ==
    [NoFilter EXCEPT !.filterType = type, !.stepSize = step, !.minQty = min, !.maxQty = max]
PriceFilter(tick, min, max) ==
    [NoFilter EXCEPT !.filterType = "PRICE_FILTER", !.tickSize = tick, !.minPrice = min, !.maxPrice = max]
MinNotionalFilter(m) ==
    [NoFilter EXCEPT !.filterType = "MIN_NOTIONAL", !.minNotional = m]

\* The loop over symbolInfo.Filters: MARKET_LOT_SIZE always replaces the lot
\* filter, LOT_SIZE only fills an empty one; the last PRICE_FILTER and the
\* last MIN_NOTIONAL win.
RECURSIVE SelectFilters(_, _)
SelectFilters(filters, sel) ==
    IF filters = <<>> THEN sel
    ELSE LET f == Head(filters)
             s == CASE f.filterType = "MARKET_LOT_SIZE" -> [sel EXCEPT !.lot = f]
                    [] f.filterType = "LOT_SIZE" ->
                         IF sel.lot = NoFilter THEN [sel EXCEPT !.lot = f] ELSE sel
                    [] f.filterType = "PRICE_FILTER" -> [sel EXCEPT !.price = f]
                    [] f.filterType = "MIN_NOTIONAL" -> [sel EXCEPT !.notional = f]
                    [] OTHER -> sel
         IN  SelectFilters(Tail(filters), s)

NoSelection == [lot |-> NoFilter, price |-> NoFilter, notional |-> NoFilter]

\* ------------------------------------------------------- executor: sizing
\* entryPrice * (1 + targetPercent/leverage), targetPercent = pct/PctDen
TakeProfitRaw(entryPrice, pct, leverage) ==
    Rat(entryPrice * (PctDen * leverage + pct), PctDen * leverage)
\* entryPrice * (1 - stopLossPercent/leverage)
StopLossRaw(entryPrice, pct, leverage) ==
    Rat(entryPrice * (PctDen * leverage - pct), PctDen * leverage)

\* quantity after the first rounding (lot filter or precision fallback)
RoundQuantity(quantity, sel, info) ==
    IF sel.lot # NoFilter /\ sel.lot.stepSize # NoStep
    THEN roundToStepSize(quantity, sel.lot.stepSize, sel.lot.minQty, sel.lot.maxQty)
    ELSE roundToPrecision(quantity, info.quantityPrecision)

RoundPrice(price, sel, info) ==
    IF sel.price # NoFilter /\ sel.price.tickSize # NoStep
    THEN roundToStepSize(price, sel.price.tickSize, sel.price.minPrice, sel.price.maxPrice)
    ELSE roundToPrecision(price, info.pricePrecision)

\* the MIN_NOTIONAL adjustment: quantity = minNotional / entryPrice,
\* then the step rounding again when a lot filter with a stepSize exists
AdjustMinNotional(quantity, entryPrice, sel) ==
    IF sel.notional # NoFilter /\ sel.notional.minNotional # NoStep
       /\ RatLT(RatMul(quantity, RatInt(entryPrice)), RatInt(sel.notional.minNotional))
    THEN LET bumped == Rat(sel.notional.minNotional, entryPrice)
         IN  IF sel.lot # NoFilter /\ sel.lot.stepSize # NoStep
             THEN roundToStepSize(bumped, sel.lot.stepSize, sel.lot.minQty, sel.lot.maxQty)
             ELSE bumped
    ELSE quantity

\* quantity, take-profit and stop-loss of the bracket, as ExecuteSignal of
\* executor.go computes them (percentages divided by leverage)
Bracket(acct, entryPrice, info) ==
    LET sel == SelectFilters(info.filters, NoSelection)
        q0  == RoundQuantity(Rat(acct.OrderAmount, entryPrice), sel, info)
    IN  [quantity        |-> AdjustMinNotional(q0, entryPrice, sel),
         takeProfitPrice |-> RoundPrice(TakeProfitRaw(entryPrice, acct.TargetPercent, acct.Leverage), sel, info),
         stopLossPrice   |-> RoundPrice(StopLossRaw(entryPrice, acct.StopLossPercent, acct.Leverage), sel, info)]

ValidAccount(acct) ==
    /\ ~(acct.Leverage <= 0 \/ acct.Leverage > MaxLeverage)
    /\ ~(acct.OrderAmount <= 0)
    /\ ~(acct.TargetPercent <= 0)
    /\ ~(acct.StopLossPercent <= 0)


\* ---------------------------------------------------------------- state
VARIABLES
    now,              \* wall clock, hours since the executor was constructed
    account,          \* the account handed to ExecuteSignal
    market,           \* what the exchange answers: ticker price, exchange info
    recentSignals,    \* OrderExecutor.recentSignals: symbol -> time or NoTime
    pendingOrders,    \* OrderExecutor.pendingOrders: order id -> OrderTimeout
    closedPositions,  \* monitorOrderTimeouts' local set of closed symbols
    ordersMu,         \* OrderExecutor.ordersMu: "free" or "sweeper"
    sweepTodo,        \* entries the running sweep has not visited yet
    nextOrderID,      \* next order id the exchange hands out
    calls,            \* the requests of the latest step that sent any, in order
    sigCount,         \* number of ExecuteSignal calls so far
    lastExec,         \* outcome of the latest ExecuteSignal call
    dispatchedAt,     \* history: symbol -> time of the latest parallel dispatch
    acceptedAt,       \* history: symbol -> time of the latest accepted entry
    closeCount,       \* history: symbol -> forced closes submitted / accepted
    brackets,         \* history: signal -> the position it opened
    dryRun,           \* config.Trading.DryRun (unnamed/part_009)
    positions,        \* rows of table positions
    orders,           \* rows of table orders
    logQueue,         \* OrderExecutor.logQueue
    activePositions,  \* OrderExecutor.activePositions: position id -> tracker
    accounts,         \* rows of table binance_accounts: id -> row
    nextAccountID,    \* AUTOINCREMENT of binance_accounts
    clearPending,     \* ids whose "unset other defaults" statement is still to run
    pendingOp,        \* history: id -> the operation whose second statement is pending
    lastStoreOp,      \* history: the latest statement of the account store
    tradingEnabled,   \* config.Trading.Enabled
    parser,           \* Engine.parser: "nil" or the compiled signal pattern
    executor,         \* Engine.executor: "nil" or "set"
    ignoreList,       \* the ignore list of the settings
    intake,           \* outcome of the latest ProcessMessage call
    symbolRun,        \* a raw captured string and what normalization made of it
    apiSecrets,       \* column api_secret of table binance_accounts: id -> secret
    response,         \* the latest dashboard response about accounts
    terminalOrders,   \* history: the protective order ids that reached a terminal state
    unregistered,     \* ExecuteSignal's tpResp/slResp that addOrderTimeout has not taken yet
    lastEvent,        \* history: the latest event handleWebSocketMessage dispatched
    sending,          \* trailing entries of logQueue whose channel send has not completed
    lifecycle,        \* "running", "stopped" (Engine.Stop returned) or "store_closed"
    keepAliveTask,    \* Client.keepAliveStream: "running" or "ended"
    statusWrites,     \* indices in received whose `go e.repo.UpdateOrderStatus` has not run
    received,         \* history: the order updates received, in arrival order
    configPattern,    \* config.Trading.SignalPattern
    deleteChecked,    \* DeleteAccount calls between their COUNT and their DELETE
    sentOnClosed      \* history: a send on logQueue happened after close(logQueue)

histVars  == <<dispatchedAt, acceptedAt, closeCount, brackets>>
execVars  == <<recentSignals, pendingOrders, closedPositions, ordersMu, sweepTodo,
               nextOrderID, calls, sigCount, lastExec>>
storeVars == <<accounts, nextAccountID, clearPending, pendingOp, lastStoreOp>>
engineVars == <<tradingEnabled, parser, executor, ignoreList, intake, symbolRun>>
rowVars   == <<positions, orders, logQueue, activePositions>>

secretVars == <<apiSecrets, response>>
lifeVars == <<sending, lifecycle, keepAliveTask>>
asyncVars == <<statusWrites, received, configPattern, deleteChecked,
               sentOnClosed>>
auxVars == <<terminalOrders, unregistered, lastEvent, lifeVars, asyncVars>>

vars == <<now, account, market, execVars, histVars, dryRun, rowVars, storeVars,
         engineVars, secretVars, auxVars>>

\* ------------------------------------------------------- exchange requests
NoCall == [op |-> "none", by |-> "none", sig |-> 0, symbol |-> "", type |-> "",
           side |-> "", quantity |-> RatInt(0), stopPrice |-> RatInt(0),
           reduceOnly |-> FALSE, orderID |-> 0, ok |-> FALSE]

Request(op, by, sig, symbol, ok) ==
    [NoCall EXCEPT !.op = op, !.by = by, !.sig = sig, !.symbol = symbol, !.ok = ok]

\* PlaceOrder: the response carries an order id exactly when err == nil
PlaceOrder(by, sig, symbol, side, type, quantity, stopPrice, reduceOnly, ok, id) ==
    [Request("order", by, sig, symbol, ok) EXCEPT
        !.side = side, !.type = type, !.quantity = quantity, !.stopPrice = stopPrice,
        !.reduceOnly = reduceOnly, !.orderID = IF ok THEN id ELSE 0]

CancelOrder(by, sig, symbol, orderID, ok) ==
    [Request("cancel", by, sig, symbol, ok) EXCEPT !.orderID = orderID]

\* the answers of the exchange to one ExecuteSignal: either one of the
\* conditioning calls fails (what follows is never asked), or all succeed
\* and each of the three orders is accepted or rejected independently
AllOk == [price |-> "ok", info |-> TRUE, leverage |-> TRUE, margin |-> TRUE,
          entry |-> TRUE, tp |-> TRUE, sl |-> TRUE]
Answers ==
    {[AllOk EXCEPT !.price = "error"], [AllOk EXCEPT !.price = "unparsable"],
     [AllOk EXCEPT !.info = FALSE], [AllOk EXCEPT !.leverage = FALSE],
     [AllOk EXCEPT !.margin = FALSE]}
    \cup {[AllOk EXCEPT !.entry = e, !.tp = t, !.sl = s] : e \in BOOLEAN, t \in BOOLEAN, s \in BOOLEAN}

\* ------------------------------------------------------------ dedup gate
\* the gate with a window of half the length
IsDuplicateHalfWindow(recent, symbol, t) ==
    recent[symbol] # NoTime /\ 2 * (t - recent[symbol]) < DedupWindow
\* the gate with the comparison turned around
IsDuplicateInverted(recent, symbol, t) ==
    recent[symbol] # NoTime /\ t - recent[symbol] > DedupWindow

IsDuplicate(recent, symbol, t) ==
    recent[symbol] # NoTime /\ t - recent[symbol] < DedupWindow

\* the step of ExecuteSignal at which it returns
Stage(symbol, ans) ==
    IF IsDuplicate(recentSignals, symbol, now) THEN "duplicate"
    ELSE IF ans.price = "error" THEN "price_failed"
    ELSE IF ans.price = "unparsable" THEN "price_parse_failed"
    ELSE IF ~ValidAccount(account) THEN "invalid_account"
    ELSE IF ~ans.info THEN "info_failed"
    ELSE IF symbol \notin market.symbols THEN "symbol_not_found"
    ELSE IF ~ans.leverage THEN "leverage_failed"
    ELSE IF ~ans.margin THEN "margin_failed"
    ELSE IF ~ans.entry THEN "entry_failed"
    ELSE "executed"

\* how far ExecuteSignal gets: 1 price, 2 exchange info, 3 leverage,
\* 4 margin type, 5 parallel dispatch
StageRank(stage) ==
    CASE stage = "duplicate" -> 0
      [] stage \in {"price_failed", "price_parse_failed", "invalid_account"} -> 1
      [] stage \in {"info_failed", "symbol_not_found"} -> 2
      [] stage = "leverage_failed" -> 3
      [] stage = "margin_failed" -> 4
      [] OTHER -> 5

\* addOrderTimeout; account.OrderTimeout is counted in hours here
addOrderTimeout(pending, orderID, symbol, orderType, quantity, timeoutHours) ==
    (orderID :> [OrderID |-> orderID, Symbol |-> symbol, OrderType |-> orderType,
                 Quantity |-> quantity, CreatedAt |-> now,
                 TimeoutDuration |-> timeoutHours]) @@ pending

\* a rollback that cancels the take-profit only
RollbackCancelsTakeProfitOnly(sig, symbol, tpID, slID) ==
    IF tpID # 0 THEN <<CancelOrder("rollback", sig, symbol, tpID, TRUE)>> ELSE <<>>

\* the cancels of the rollback: one for each protective order that the
\* exchange accepted (tpResp != nil, slResp != nil)
RollbackCancels(sig, symbol, tpID, slID) ==
    (IF tpID # 0 THEN <<CancelOrder("rollback", sig, symbol, tpID, TRUE)>> ELSE <<>>)
    \o (IF slID # 0 THEN <<CancelOrder("rollback", sig, symbol, slID, TRUE)>> ELSE <<>>)

\* a registration of the take-profit alone
RegisterTakeProfitOnly(pending, symbol, tpID, slID, quantity, timeoutHours) ==
    IF tpID # 0
    THEN addOrderTimeout(pending, tpID, symbol, "take_profit", quantity, timeoutHours)
    ELSE pending

\* a registration that requires both protective orders
RegisterProtectiveBothOrNone(pending, symbol, tpID, slID, quantity, timeoutHours) ==
    IF tpID # 0 /\ slID # 0
    THEN addOrderTimeout(addOrderTimeout(pending, tpID, symbol, "take_profit", quantity, timeoutHours),
                         slID, symbol, "stop_loss", quantity, timeoutHours)
    ELSE pending

\* the TP/SL registrations after the error check: every protective order
\* with a response is registered
RegisterProtective(pending, symbol, tpID, slID, quantity, timeoutHours) ==
    LET withTP == IF tpID # 0
                  THEN addOrderTimeout(pending, tpID, symbol, "take_profit", quantity, timeoutHours)
                  ELSE pending
    IN  IF slID # 0
        THEN addOrderTimeout(withTP, slID, symbol, "stop_loss", quantity, timeoutHours)
        ELSE withTP

\* recentSignals[signal.Symbol] = time.Now() on the success path only
\* an executor that records the symbol however the call ends
RecordSignalAlways(recent, symbol, stage) == [recent EXCEPT ![symbol] = now]

RecordSignal(recent, symbol, stage) ==
    IF stage = "executed" THEN [recent EXCEPT ![symbol] = now] ELSE recent

\* ------------------------------------------ ExecuteSignal (executor.go)
ExecuteSignal(symbol, ans) ==
    LET sig     == sigCount + 1
        stage   == Stage(symbol, ans)
        rank    == StageRank(stage)
        b       == Bracket(account, market.price, market.info)
        entryID == IF ans.entry THEN nextOrderID ELSE 0
        tpID    == IF ans.tp THEN nextOrderID + (IF ans.entry THEN 1 ELSE 0) ELSE 0
        slID    == IF ans.sl THEN nextOrderID + (IF ans.entry THEN 1 ELSE 0)
                                              + (IF ans.tp THEN 1 ELSE 0) ELSE 0
        accepted == (IF ans.entry THEN 1 ELSE 0) + (IF ans.tp THEN 1 ELSE 0)
                    + (IF ans.sl THEN 1 ELSE 0)
        conditioning ==
            (IF rank >= 1
                THEN <<Request("price", "execute", sig, symbol, ans.price # "error")>>
                ELSE <<>>)
            \o (IF rank >= 2 THEN <<Request("exchangeInfo", "execute", sig, symbol, ans.info)>> ELSE <<>>)
            \o (IF rank >= 3 THEN <<Request("leverage", "execute", sig, symbol, ans.leverage)>> ELSE <<>>)
            \o (IF rank >= 4 THEN <<Request("marginType", "execute", sig, symbol, ans.margin)>> ELSE <<>>)
        dispatch ==
            IF rank >= 5
            THEN << PlaceOrder("execute", sig, symbol, "BUY", "MARKET", b.quantity,
                               RatInt(0), FALSE, ans.entry, entryID),
                    PlaceOrder("execute", sig, symbol, "SELL", "TAKE_PROFIT_MARKET", b.quantity,
                               b.takeProfitPrice, TRUE, ans.tp, tpID),
                    PlaceOrder("execute", sig, symbol, "SELL", "STOP_MARKET", b.quantity,
                               b.stopLossPrice, TRUE, ans.sl, slID) >>
            ELSE <<>>
        rollback == IF stage = "entry_failed" THEN RollbackCancels(sig, symbol, tpID, slID) ELSE <<>>
        sent     == conditioning \o dispatch \o rollback
        pending  == IF stage = "executed"
                    THEN RegisterProtective(pendingOrders, symbol, tpID, slID,
                                            b.quantity, account.OrderTimeout)
                    ELSE pendingOrders
    IN  /\ sigCount < MaxSignals
        /\ (pending # pendingOrders) => ordersMu = "free"
        /\ sigCount' = sig
        /\ calls' = IF sent = <<>> THEN calls ELSE sent
        /\ nextOrderID' = IF rank >= 5 THEN nextOrderID + accepted ELSE nextOrderID
        /\ pendingOrders' = pending
        /\ recentSignals' = RecordSignal(recentSignals, symbol, stage)
        /\ lastExec' = [sig |-> sig, symbol |-> symbol, stage |-> stage,
                        ret |-> IF stage \in {"duplicate", "executed"} THEN "nil" ELSE "error"]
        /\ dispatchedAt' = IF rank >= 5 THEN [dispatchedAt EXCEPT ![symbol] = now] ELSE dispatchedAt
        /\ acceptedAt' = IF stage = "executed" THEN [acceptedAt EXCEPT ![symbol] = now] ELSE acceptedAt
        /\ brackets' = IF stage = "executed"
                       THEN (sig :> [symbol |-> symbol, quantity |-> b.quantity,
                                     protective |-> {tpID, slID} \ {0},
                                     swept |-> FALSE, closeSubmitted |-> FALSE]) @@ brackets
                       ELSE brackets
        /\ UNCHANGED <<now, account, market, engineVars, secretVars, auxVars, closedPositions,
                       ordersMu, sweepTodo,
                       closeCount, dryRun, rowVars, storeVars>>

\* ------------------------------------- monitorOrderTimeouts (executor.go)
TimedOut(timeout) == now - timeout.CreatedAt > timeout.TimeoutDuration

\* a sweeper that never records the close
MarkClosedNever(closed, symbol, closeOk) == closed

\* closedPositions[positionKey] = true only when the close was accepted
MarkClosed(closed, symbol, closeOk) ==
    IF closeOk THEN closed \cup {symbol} ELSE closed

\* if !closedPositions[positionKey]
ShouldClose(closed, symbol) == symbol \notin closed

\* a sweeper that deletes nothing
WithoutNothing(pending, orderID) == pending

\* delete(e.pendingOrders, orderID)
Without(pending, orderID) ==
    [id \in DOMAIN pending \ {orderID} |-> pending[id]]

\* the ticker fires: the sweeper takes ordersMu and starts ranging over the
\* map.  A sweep that finds no entry timed out changes nothing and is left
\* out.
SweepTick ==
    /\ ordersMu = "free"
    /\ \E id \in DOMAIN pendingOrders : TimedOut(pendingOrders[id])
    /\ ordersMu' = "sweeper"
    /\ sweepTodo' = DOMAIN pendingOrders
    /\ UNCHANGED <<now, account, market, engineVars, secretVars, auxVars, recentSignals,
                   pendingOrders, closedPositions,
                   nextOrderID, calls, sigCount, lastExec, histVars, dryRun, rowVars, storeVars>>

\* one iteration of the range loop, ordersMu held; the mutex is released
\* after the last entry
SweepOrder(orderID, cancelOk, closeOk) ==
    LET timeout == pendingOrders[orderID]
        cancel  == CancelOrder("sweeper", 0, timeout.Symbol, orderID, cancelOk)
        closing == ShouldClose(closedPositions, timeout.Symbol)
        close   == PlaceOrder("sweeper", 0, timeout.Symbol, "SELL", "MARKET",
                              timeout.Quantity, RatInt(0), TRUE, closeOk, nextOrderID)
    IN  /\ ordersMu = "sweeper"
        /\ orderID \in sweepTodo
        /\ sweepTodo' = sweepTodo \ {orderID}
        /\ ordersMu' = IF sweepTodo' = {} THEN "free" ELSE "sweeper"
        /\ IF TimedOut(timeout)
           THEN /\ calls' = <<cancel>> \o (IF closing THEN <<close>> ELSE <<>>)
                /\ closedPositions' = IF closing
                                      THEN MarkClosed(closedPositions, timeout.Symbol, closeOk)
                                      ELSE closedPositions
                /\ nextOrderID' = IF closing /\ closeOk THEN nextOrderID + 1 ELSE nextOrderID
                /\ pendingOrders' = Without(pendingOrders, orderID)
                /\ closeCount' = IF closing
                                 THEN [closeCount EXCEPT
                                         ![timeout.Symbol].submitted = @ + 1,
                                         ![timeout.Symbol].accepted = @ + (IF closeOk THEN 1 ELSE 0)]
                                 ELSE closeCount
                /\ brackets' = [sig \in DOMAIN brackets |->
                                  IF orderID \in brackets[sig].protective
                                  THEN [brackets[sig] EXCEPT
                                          !.swept = TRUE,
                                          !.closeSubmitted = @ \/ closing]
                                  ELSE brackets[sig]]
           ELSE UNCHANGED <<calls, closedPositions, nextOrderID, pendingOrders,
                            closeCount, brackets>>
        /\ UNCHANGED <<now, account, market, engineVars, secretVars, asyncVars, unregistered,
                   lastEvent, lifeVars,
                       recentSignals,
                       sigCount, lastExec,
                       dispatchedAt, acceptedAt, dryRun, rowVars, storeVars>>

\* ----------------------------------------- cleanupOldSignals (executor.go)
Expired(executedAt) == now - executedAt > DedupWindow

CleanupOldSignals ==
    /\ \E s \in Symbols : recentSignals[s] # NoTime /\ Expired(recentSignals[s])
    /\ recentSignals' = [s \in Symbols |->
                            IF recentSignals[s] # NoTime /\ Expired(recentSignals[s])
                            THEN NoTime ELSE recentSignals[s]]
    /\ UNCHANGED <<now, account, market, engineVars, secretVars, auxVars, pendingOrders,
                   closedPositions, ordersMu, sweepTodo,
                   nextOrderID, calls, sigCount, lastExec, histVars, dryRun, rowVars, storeVars>>

\* ----------------------------------------- HandleOrderUpdate (executor.go)
OrderStatuses == {"NEW", "PARTIALLY_FILLED", "FILLED", "CANCELED", "EXPIRED"}
\* an update handler that reacts to fills only
IsFilled(status) == status = "FILLED"

IsTerminal(status) == status = "FILLED" \/ status = "CANCELED" \/ status = "EXPIRED"

HandleOrderUpdate(orderID, status) ==
    /\ IsTerminal(status) => ordersMu = "free"
    /\ pendingOrders' = IF IsTerminal(status) /\ orderID \in DOMAIN pendingOrders
                        THEN Without(pendingOrders, orderID)
                        ELSE pendingOrders
    /\ UNCHANGED <<now, account, market, engineVars, secretVars, asyncVars, unregistered,
               lifeVars,
                   recentSignals,
                   closedPositions, ordersMu, sweepTodo,
                   nextOrderID, calls, sigCount, lastExec, histVars, dryRun, rowVars, storeVars>>

\* ------------------------------------------------------------------ clock
\* The clock advances between sweeps: the sweeper's ticker fires every 10
\* seconds, so an entry that is timed out has been swept before ClockStep
\* more hours pass.
Tick ==
    /\ ordersMu = "free"
    /\ \A id \in DOMAIN pendingOrders : ~TimedOut(pendingOrders[id])
    /\ now + ClockStep <= MaxClock
    /\ now' = now + ClockStep
    /\ UNCHANGED <<account, market, engineVars, secretVars, auxVars, execVars, histVars,
                   dryRun, rowVars, storeVars>>

\* ------------------------------------------------------------ construction
\* the account of the end-to-end scenarios: leverage 10, order amount,
\* target and stop-loss percentages (over PctDen), order timeout (hours)
ScenarioAccount ==
    [Leverage |-> 10, OrderAmount |-> 4, TargetPercent |-> 2, StopLossPercent |-> 1,
     OrderTimeout |-> 6]

ScenarioMarket ==
    [price |-> 2, symbols |-> Listed,
     info |-> [quantityPrecision |-> 0, pricePrecision |-> 0,
               filters |-> <<LotFilter("LOT_SIZE", 1, 1, 0), PriceFilter(1, 1, 0),
                             MinNotionalFilter(2)>>]]

NoExec == [sig |-> 0, symbol |-> "", stage |-> "none", ret |-> "nil"]

InitExecutor ==
    /\ now = 0
    /\ recentSignals = [s \in Symbols |-> NoTime]
    /\ pendingOrders = <<>>
    /\ closedPositions = {}
    /\ ordersMu = "free"
    /\ sweepTodo = {}
    /\ nextOrderID = 1
    /\ calls = <<>>
    /\ sigCount = 0
    /\ lastExec = NoExec
    /\ dispatchedAt = [s \in Symbols |-> NoTime]
    /\ acceptedAt = [s \in Symbols |-> NoTime]
    /\ closeCount = [s \in Symbols |-> [submitted |-> 0, accepted |-> 0]]
    /\ brackets = <<>>

InitRows ==
    /\ dryRun = FALSE
    /\ positions = {}
    /\ orders = {}
    /\ logQueue = <<>>
    /\ activePositions = <<>>

\* a dashboard response: per account in it, the secret stored and the one shown
NoResponse == [handler |-> "none", entries |-> {}]

\* the latest statement of the account store and whether it succeeded
StoreOp(op, id, ok) == [op |-> op, id |-> id, ok |-> ok]
NoStoreOp == StoreOp("none", 0, TRUE)

\* the engine as NewEngine builds it with trading enabled and a default
\* account: the parser compiled, the executor constructed
NoIntake == [msg |-> 0, text |-> <<>>, outcome |-> "none", symbol |-> "", ret |-> "nil",
             errorLogged |-> FALSE]
NoRun == [raw |-> <<>>, applied |-> 0, once |-> <<>>, twice |-> <<>>]

InitEngine ==
    /\ tradingEnabled = TRUE
    /\ parser = "group"
    /\ executor = "set"
    /\ ignoreList = {}
    /\ intake = NoIntake
    /\ symbolRun = NoRun

NoEvent == [n |-> 0, EventType |-> "", OrderID |-> 0, Status |-> "", wasPending |-> FALSE]

InitAux ==
    /\ terminalOrders = {}
    /\ unregistered = <<>>
    /\ lastEvent = NoEvent
    /\ sending = 0
    /\ lifecycle = "running"
    /\ keepAliveTask = "running"
    /\ statusWrites = {}
    /\ received = <<>>
    /\ configPattern = "group"
    /\ deleteChecked = {}
    /\ sentOnClosed = FALSE

InitStore ==
    /\ accounts = <<>>
    /\ nextAccountID = 1
    /\ clearPending = {}
    /\ pendingOp = <<>>
    /\ lastStoreOp = NoStoreOp
    /\ apiSecrets = <<>>
    /\ response = NoResponse

Init ==
    /\ account = ScenarioAccount
    /\ market = ScenarioMarket
    /\ InitExecutor
    /\ InitRows
    /\ InitStore
    /\ InitAux
    /\ InitEngine

Next ==
    \/ \E symbol \in Symbols, ans \in Answers : ExecuteSignal(symbol, ans)
    \/ SweepTick
    \/ \E orderID \in sweepTodo, cancelOk \in BOOLEAN, closeOk \in BOOLEAN :
          SweepOrder(orderID, cancelOk, closeOk) /\ UNCHANGED terminalOrders
    \/ CleanupOldSignals
    \/ \E orderID \in 1..(nextOrderID - 1), status \in OrderStatuses :
          HandleOrderUpdate(orderID, status) /\ UNCHANGED <<terminalOrders, lastEvent>>
    \/ Tick

Spec == Init /\ [][Next]_vars

\* the executor on an exchange that lists both symbols: positions opened at
\* different times are pending together
InitSweep ==
    /\ account = ScenarioAccount
    /\ market = [ScenarioMarket EXCEPT !.symbols = Symbols]
    /\ InitExecutor
    /\ InitRows
    /\ InitStore
    /\ InitAux
    /\ InitEngine

\* signals whose entry is accepted; each protective order is accepted or not
SweepAnswers == {[AllOk EXCEPT !.tp = t, !.sl = s] : t \in BOOLEAN, s \in BOOLEAN}

NextSweep ==
    \/ \E symbol \in Symbols, ans \in SweepAnswers : ExecuteSignal(symbol, ans)
    \/ SweepTick
    \/ \E orderID \in sweepTodo, cancelOk \in BOOLEAN, closeOk \in BOOLEAN :
          SweepOrder(orderID, cancelOk, closeOk) /\ UNCHANGED terminalOrders
    \/ \E orderID \in DOMAIN pendingOrders, status \in OrderStatuses :
          HandleOrderUpdate(orderID, status) /\ UNCHANGED <<terminalOrders, lastEvent>>
    \/ Tick

SpecSweep == InitSweep /\ [][NextSweep]_vars

\* =========================================================================
\* The user-data stream (unnamed/part_011, engine.go): handleWebSocketMessage
\* dispatches on the event type.  NewEngine registers an order-update
\* callback that calls executor.HandleOrderUpdate; nothing registers an
\* account-update or a position-update callback.
\* =========================================================================
MaxEvents == 3

EventTypes == {"ORDER_TRADE_UPDATE", "ACCOUNT_UPDATE"}

handleWebSocketMessage(eventType, orderID, status) ==
    /\ lastEvent.n < MaxEvents
    /\ lastEvent' = [n |-> lastEvent.n + 1, EventType |-> eventType, OrderID |-> orderID,
                     Status |-> status, wasPending |-> orderID \in DOMAIN pendingOrders]
    /\ IF eventType = "ORDER_TRADE_UPDATE"
       THEN HandleOrderUpdate(orderID, status) /\ UNCHANGED terminalOrders
       ELSE UNCHANGED <<now, account, market, engineVars, secretVars, asyncVars, terminalOrders,
                        unregistered, lifeVars, execVars, histVars, dryRun, rowVars,
                        storeVars>>

NextStream ==
    \/ \E symbol \in Symbols, ans \in SweepAnswers : ExecuteSignal(symbol, ans)
    \/ \E orderID \in 1..(nextOrderID - 1), status \in OrderStatuses :
          handleWebSocketMessage("ORDER_TRADE_UPDATE", orderID, status)
    \/ handleWebSocketMessage("ACCOUNT_UPDATE", 0, "")
    \/ SweepTick
    \/ \E orderID \in sweepTodo, cancelOk \in BOOLEAN, closeOk \in BOOLEAN :
          SweepOrder(orderID, cancelOk, closeOk) /\ UNCHANGED terminalOrders
    \/ Tick

SpecStream == Init /\ [][NextStream]_vars

\* =========================================================================
\* ExecuteSignal in two parts (executor.go): the parallel dispatch up to
\* wg.Wait() and the error check, then the addOrderTimeout calls one by one.
\* The user-data stream delivers order updates between any two of them.
\* =========================================================================
Unregistered(sig, symbol, tpID, slID, quantity, timeoutHours) ==
    (IF tpID # 0
        THEN <<[OrderID |-> tpID, sig |-> sig, Symbol |-> symbol, OrderType |-> "take_profit",
                Quantity |-> quantity, OrderTimeout |-> timeoutHours]>>
        ELSE <<>>)
    \o (IF slID # 0
           THEN <<[OrderID |-> slID, sig |-> sig, Symbol |-> symbol, OrderType |-> "stop_loss",
                   Quantity |-> quantity, OrderTimeout |-> timeoutHours]>>
           ELSE <<>>)

\* the protective orders the exchange accepted so far
ProtectiveOrders == UNION {brackets[sig].protective : sig \in DOMAIN brackets}

\* a signal whose entry is accepted: conditioning, dispatch, wg.Wait(); the
\* responses tpResp and slResp are held, nothing is registered yet.  With no
\* protective order accepted the call runs through to its return.
DispatchBracket(symbol, ans) ==
    LET sig     == sigCount + 1
        b       == Bracket(account, market.price, market.info)
        entryID == nextOrderID
        tpID    == IF ans.tp THEN nextOrderID + 1 ELSE 0
        slID    == IF ans.sl THEN nextOrderID + 1 + (IF ans.tp THEN 1 ELSE 0) ELSE 0
        held    == Unregistered(sig, symbol, tpID, slID, b.quantity, account.OrderTimeout)
    IN  /\ sigCount < MaxSignals
        /\ unregistered = <<>>
        /\ Stage(symbol, ans) = "executed"
        /\ sigCount' = sig
        /\ calls' = << Request("price", "execute", sig, symbol, TRUE),
                       Request("exchangeInfo", "execute", sig, symbol, TRUE),
                       Request("leverage", "execute", sig, symbol, TRUE),
                       Request("marginType", "execute", sig, symbol, TRUE),
                       PlaceOrder("execute", sig, symbol, "BUY", "MARKET", b.quantity,
                                  RatInt(0), FALSE, TRUE, entryID),
                       PlaceOrder("execute", sig, symbol, "SELL", "TAKE_PROFIT_MARKET",
                                  b.quantity, b.takeProfitPrice, TRUE, ans.tp, tpID),
                       PlaceOrder("execute", sig, symbol, "SELL", "STOP_MARKET",
                                  b.quantity, b.stopLossPrice, TRUE, ans.sl, slID) >>
        /\ nextOrderID' = nextOrderID + 1 + Len(held)
        /\ unregistered' = held
        /\ dispatchedAt' = [dispatchedAt EXCEPT ![symbol] = now]
        /\ acceptedAt' = [acceptedAt EXCEPT ![symbol] = now]
        /\ brackets' = (sig :> [symbol |-> symbol, quantity |-> b.quantity,
                                protective |-> {tpID, slID} \ {0},
                                swept |-> FALSE, closeSubmitted |-> FALSE]) @@ brackets
        /\ recentSignals' = IF held = <<>> THEN RecordSignal(recentSignals, symbol, "executed")
                            ELSE recentSignals
        /\ lastExec' = IF held = <<>>
                       THEN [sig |-> sig, symbol |-> symbol, stage |-> "executed", ret |-> "nil"]
                       ELSE lastExec
        /\ UNCHANGED <<now, account, market, engineVars, secretVars, asyncVars, terminalOrders,
                   lastEvent,
                       lifeVars,
                       pendingOrders, closedPositions, ordersMu, sweepTodo,
                       closeCount, dryRun, rowVars, storeVars>>

\* the next e.addOrderTimeout(...) of the call; after the last one the
\* symbol is recorded and the call returns nil
RegisterHeld ==
    LET held == Head(unregistered)
        last == Len(unregistered) = 1
    IN  /\ unregistered # <<>>
        /\ ordersMu = "free"
        /\ pendingOrders' = addOrderTimeout(pendingOrders, held.OrderID, held.Symbol,
                                            held.OrderType, held.Quantity, held.OrderTimeout)
        /\ unregistered' = Tail(unregistered)
        /\ recentSignals' = IF last THEN RecordSignal(recentSignals, held.Symbol, "executed")
                            ELSE recentSignals
        /\ lastExec' = IF last
                       THEN [sig |-> held.sig, symbol |-> held.Symbol,
                             stage |-> "executed", ret |-> "nil"]
                       ELSE lastExec
        /\ UNCHANGED <<now, account, market, engineVars, secretVars, asyncVars, terminalOrders,
                   lastEvent,
                       lifeVars,
                       closedPositions, ordersMu, sweepTodo, nextOrderID, calls, sigCount,
                       histVars, dryRun, rowVars, storeVars>>

\* a signal that ends before or at the entry: one step, as in ExecuteSignal
ExecuteSignalFailing(symbol, ans) ==
    /\ unregistered = <<>>
    /\ Stage(symbol, ans) # "executed"
    /\ ExecuteSignal(symbol, ans)

\* handleWebSocketMessage, case "ORDER_TRADE_UPDATE": c.onOrderUpdate(&update),
\* which main wires to executor.HandleOrderUpdate
OnOrderTradeUpdate(orderID, status) ==
    /\ HandleOrderUpdate(orderID, status)
    /\ UNCHANGED lastEvent
    /\ terminalOrders' = IF IsTerminal(status) /\ orderID \in ProtectiveOrders
                         THEN terminalOrders \cup {orderID}
                         ELSE terminalOrders

\* one iteration of the sweep; an entry it deletes has ended
SweepOrderTerminal(orderID, cancelOk, closeOk) ==
    /\ SweepOrder(orderID, cancelOk, closeOk)
    /\ terminalOrders' = IF TimedOut(pendingOrders[orderID])
                         THEN terminalOrders \cup {orderID}
                         ELSE terminalOrders

NextRegistration ==
    \/ \E symbol \in Symbols, ans \in Answers : DispatchBracket(symbol, ans)
    \/ RegisterHeld
    \/ \E symbol \in Symbols, ans \in Answers : ExecuteSignalFailing(symbol, ans)
    \/ \E orderID \in 1..(nextOrderID - 1), status \in OrderStatuses :
          OnOrderTradeUpdate(orderID, status)
    \/ SweepTick
    \/ \E orderID \in sweepTodo, cancelOk \in BOOLEAN, closeOk \in BOOLEAN :
          SweepOrderTerminal(orderID, cancelOk, closeOk)
    \/ Tick

SpecRegistration == Init /\ [][NextRegistration]_vars


\* ------------------------------------------------- sizing specification
\* One ExecuteSignal for every combination of ticker price, order amount,
\* account percentages and exchange filters drawn from the bounded sets.
StepChoices   == {NoStep} \cup (0..MaxStep)
MaxQtyChoices == {0, 2, MaxAmount}
LotChoices ==
    {<<>>}
    \cup {<<LotFilter("LOT_SIZE", st, mn, mx)>> :
             st \in StepChoices, mn \in 0..MaxMinQty, mx \in MaxQtyChoices}
    \cup {<<LotFilter("LOT_SIZE", 1, 1, 0), LotFilter("MARKET_LOT_SIZE", st, mn, mx)>> :
             st \in StepChoices, mn \in 0..MaxMinQty, mx \in MaxQtyChoices}
PriceChoices ==
    {<<>>} \cup {<<PriceFilter(tk, b[1], b[2])>> : tk \in StepChoices, b \in {<<0, 0>>, <<3, 4>>}}
NotionalChoices ==
    {<<>>} \cup {<<MinNotionalFilter(m)>> : m \in {NoStep, 2, 5, MaxAmount + 3}}
AccountChoices ==
    {[ScenarioAccount EXCEPT !.Leverage = 1, !.TargetPercent = 5, !.StopLossPercent = 5,
                             !.OrderAmount = a] : a \in 1..MaxAmount}
    \cup {[ScenarioAccount EXCEPT !.Leverage = 2, !.TargetPercent = 3, !.OrderAmount = a] :
             a \in 1..MaxAmount}

InitSizing ==
    /\ account \in AccountChoices
    /\ \E p \in 1..MaxPrice, lot \in LotChoices, pf \in PriceChoices, mn \in NotionalChoices :
          market = [price |-> p, symbols |-> Listed,
                    info |-> [quantityPrecision |-> 1, pricePrecision |-> 1,
                              filters |-> lot \o pf \o mn]]
    /\ InitExecutor
    /\ InitRows
    /\ InitStore
    /\ InitAux
    /\ InitEngine

NextSizing ==
    /\ sigCount = 0
    /\ \E symbol \in Listed, ans \in {AllOk, [AllOk EXCEPT !.entry = FALSE]} :
          ExecuteSignal(symbol, ans)

SpecSizing == InitSizing /\ [][NextSizing]_vars

\* ------------------------------------ the executor of unnamed/part_009
\* This executor takes its parameters from config.Trading (held in account
\* here), multiplies the percentages by the leverage, and writes the
\* Position row before it talks to the exchange about orders.
TakeProfitRawTracked(entryPrice, pct, leverage) ==
    Rat(entryPrice * (PctDen + pct * leverage), PctDen)
StopLossRawTracked(entryPrice, pct, leverage) ==
    Rat(entryPrice * (PctDen - pct * leverage), PctDen)

BracketTracked(cfg, entryPrice, info) ==
    LET sel == SelectFilters(info.filters, NoSelection)
        q0  == RoundQuantity(Rat(cfg.OrderAmount, entryPrice), sel, info)
    IN  [quantity        |-> AdjustMinNotional(q0, entryPrice, sel),
         takeProfitPrice |-> RoundPrice(TakeProfitRawTracked(entryPrice, cfg.TargetPercent, cfg.Leverage), sel, info),
         stopLossPrice   |-> RoundPrice(StopLossRawTracked(entryPrice, cfg.StopLossPercent, cfg.Leverage), sel, info)]

\* AUTOINCREMENT of table positions; rows are never deleted
NextPositionID == Cardinality(positions) + 1
TrackedAccountID == 1

PositionRow(id, sig, symbol) ==
    [ID |-> id, SignalID |-> sig, AccountID |-> TrackedAccountID, Symbol |-> symbol,
     Status |-> "open"]

OrderRow(positionID, binanceOrderID, purpose, status) ==
    [PositionID |-> positionID, BinanceOrderID |-> binanceOrderID,
     OrderPurpose |-> purpose, Status |-> status]

\* the three rows of the dry-run branch
DryRunOrders(positionID) ==
    {OrderRow(positionID, <<"DRY_ENTRY", positionID>>, "entry", "FILLED"),
     OrderRow(positionID, <<"DRY_TP", positionID>>, "take_profit", "NEW"),
     OrderRow(positionID, <<"DRY_SL", positionID>>, "stop_loss", "NEW")}

\* asyncLogOrder for every response that is not nil, in the order of the code
LoggedOrders(positionID, entryID, entryStatus, tpID, slID) ==
    <<OrderRow(positionID, <<"", entryID>>, "entry", entryStatus)>>
    \o (IF tpID # 0 THEN <<OrderRow(positionID, <<"", tpID>>, "take_profit", "NEW")>> ELSE <<>>)
    \o (IF slID # 0 THEN <<OrderRow(positionID, <<"", slID>>, "stop_loss", "NEW")>> ELSE <<>>)

addOrderTimeoutTracked(pending, orderID, positionID, symbol, orderType, timeoutHours) ==
    (orderID :> [OrderID |-> orderID, PositionID |-> positionID, Symbol |-> symbol,
                 OrderType |-> orderType, CreatedAt |-> now,
                 TimeoutDuration |-> timeoutHours]) @@ pending

StageTracked(symbol, ans, saveOk) ==
    IF ans.price = "error" THEN "price_failed"
    ELSE IF ans.price = "unparsable" THEN "price_parse_failed"
    ELSE IF ~ans.info THEN "info_failed"
    ELSE IF symbol \notin market.symbols THEN "symbol_not_found"
    ELSE IF ~saveOk THEN "position_save_failed"
    ELSE IF dryRun THEN "dry_run"
    ELSE IF ~ans.leverage THEN "leverage_failed"
    ELSE IF ~ans.margin THEN "margin_failed"
    ELSE IF ~ans.entry THEN "entry_failed"
    ELSE "executed"

\* 1 price, 2 exchange info, 3 SavePosition failed, 4 Position row written,
\* 5 leverage, 6 margin type, 7 parallel dispatch
StageRankTracked(stage) ==
    CASE stage \in {"price_failed", "price_parse_failed"} -> 1
      [] stage \in {"info_failed", "symbol_not_found"} -> 2
      [] stage = "position_save_failed" -> 3
      [] stage = "dry_run" -> 4
      [] stage = "leverage_failed" -> 5
      [] stage = "margin_failed" -> 6
      [] OTHER -> 7

ExecuteSignalTracked(symbol, ans, saveOk) ==
    LET sig     == sigCount + 1
        stage   == StageTracked(symbol, ans, saveOk)
        rank    == StageRankTracked(stage)
        b       == BracketTracked(account, market.price, market.info)
        posID   == NextPositionID
        entryID == IF ans.entry THEN nextOrderID ELSE 0
        tpID    == IF ans.tp THEN nextOrderID + (IF ans.entry THEN 1 ELSE 0) ELSE 0
        slID    == IF ans.sl THEN nextOrderID + (IF ans.entry THEN 1 ELSE 0)
                                              + (IF ans.tp THEN 1 ELSE 0) ELSE 0
        accepted == (IF ans.entry THEN 1 ELSE 0) + (IF ans.tp THEN 1 ELSE 0)
                    + (IF ans.sl THEN 1 ELSE 0)
        conditioning ==
            <<Request("price", "execute", sig, symbol, ans.price # "error")>>
            \o (IF rank >= 2 THEN <<Request("exchangeInfo", "execute", sig, symbol, ans.info)>> ELSE <<>>)
            \o (IF rank >= 5 THEN <<Request("leverage", "execute", sig, symbol, ans.leverage)>> ELSE <<>>)
            \o (IF rank >= 6 THEN <<Request("marginType", "execute", sig, symbol, ans.margin)>> ELSE <<>>)
        dispatch ==
            IF rank >= 7
            THEN << PlaceOrder("execute", sig, symbol, "BUY", "MARKET", b.quantity,
                               RatInt(0), FALSE, ans.entry, entryID),
                    PlaceOrder("execute", sig, symbol, "SELL", "TAKE_PROFIT_MARKET", b.quantity,
                               b.takeProfitPrice, TRUE, ans.tp, tpID),
                    PlaceOrder("execute", sig, symbol, "SELL", "STOP_MARKET", b.quantity,
                               b.stopLossPrice, TRUE, ans.sl, slID) >>
            ELSE <<>>
        rollback == IF stage = "entry_failed" THEN RollbackCancels(sig, symbol, tpID, slID) ELSE <<>>
        withTP   == IF tpID # 0
                    THEN addOrderTimeoutTracked(pendingOrders, tpID, posID, symbol,
                                                "take_profit", account.OrderTimeout)
                    ELSE pendingOrders
        withSL   == IF slID # 0
                    THEN addOrderTimeoutTracked(withTP, slID, posID, symbol,
                                                "stop_loss", account.OrderTimeout)
                    ELSE withTP
        pending  == IF stage = "executed" THEN withSL ELSE pendingOrders
    IN  /\ sigCount < MaxSignals
        /\ (pending # pendingOrders) => ordersMu = "free"
        /\ sigCount' = sig
        /\ calls' = conditioning \o dispatch \o rollback
        /\ nextOrderID' = IF rank >= 7 THEN nextOrderID + accepted ELSE nextOrderID
        /\ positions' = IF rank >= 4 THEN positions \cup {PositionRow(posID, sig, symbol)}
                        ELSE positions
        /\ orders' = IF stage = "dry_run" THEN orders \cup DryRunOrders(posID) ELSE orders
        /\ logQueue' = IF stage = "executed"
                       THEN logQueue \o LoggedOrders(posID, entryID, ans.status, tpID, slID)
                       ELSE logQueue
        /\ pendingOrders' = pending
        /\ activePositions' =
              IF stage = "executed"
              THEN (posID :> [PositionID |-> posID, Symbol |-> symbol,
                              EntryFilled |-> (ans.status = "FILLED"),
                              TPOrderID |-> tpID, SLOrderID |-> slID]) @@ activePositions
              ELSE activePositions
        /\ lastExec' = [sig |-> sig, symbol |-> symbol, stage |-> stage,
                        ret |-> IF stage \in {"dry_run", "executed"} THEN "nil" ELSE "error"]
        /\ UNCHANGED <<now, account, market, secretVars, asyncVars, terminalOrders, unregistered,
                       lastEvent, lifecycle, keepAliveTask, tradingEnabled, parser,
                       executor, ignoreList,
                       symbolRun, recentSignals, closedPositions, ordersMu, sweepTodo, histVars,
                       dryRun, storeVars>>

\* runAsyncLogger: one entry taken from the queue and handed to SaveOrder,
\* whose error is logged and dropped
RunAsyncLogger(saveOk) ==
    /\ logQueue # <<>>
    /\ logQueue' = Tail(logQueue)
    /\ orders' = IF saveOk THEN orders \cup {Head(logQueue)} ELSE orders
    /\ UNCHANGED <<now, account, market, engineVars, secretVars, auxVars, execVars, histVars,
                   dryRun, positions,
                   activePositions, storeVars>>

\* the status field of the exchange's answer to the entry order
AnswersTracked == {[status |-> st] @@ a : a \in Answers, st \in {"NEW", "FILLED"}}

InitTracked ==
    /\ account = ScenarioAccount
    /\ market = ScenarioMarket
    /\ InitExecutor
    /\ dryRun \in BOOLEAN
    /\ positions = {}
    /\ orders = {}
    /\ logQueue = <<>>
    /\ activePositions = <<>>
    /\ InitStore
    /\ InitAux
    /\ InitEngine

NextTracked ==
    \/ \E symbol \in Symbols, ans \in AnswersTracked, saveOk \in BOOLEAN :
          ExecuteSignalTracked(symbol, ans, saveOk) /\ UNCHANGED <<intake, sending>>
    \/ \E saveOk \in BOOLEAN : RunAsyncLogger(saveOk)

SpecTracked == InitTracked /\ [][NextTracked]_vars

\* =========================================================================
\* The order log queue (unnamed/part_009): logQueue is a channel with a fixed
\* capacity; asyncLogOrder sends on it from ExecuteSignal's own goroutine and
\* runAsyncLogger is its only receiver.
\* =========================================================================
LogQueueCapacity == 2      \* make(chan *LogEntry, 1000), scaled down

\* the entries that are in the channel
InChannel == Len(logQueue) - sending

\* ExecuteSignal up to its asyncLogOrder calls: the rows are built and their
\* sends are still to happen
\* main stops the engine first and the message client after it, so that
\* messages are still delivered after Engine.Stop; they end with repo.Close
ExecuteSignalHandingOver(symbol, ans, saveOk) ==
    /\ sending = 0
    /\ lifecycle \in {"running", "stopped"}
    /\ ~sentOnClosed
    /\ ExecuteSignalTracked(symbol, ans, saveOk)
    /\ sending' = Len(logQueue') - Len(logQueue)

\* e.logQueue <- &LogEntry{...}: proceeds only while the channel has room;
\* a send on the channel that Close has closed panics, which ends the process
asyncLogOrder ==
    /\ sending > 0
    /\ ~sentOnClosed
    /\ IF lifecycle = "running"
       THEN /\ InChannel < LogQueueCapacity
            /\ sending' = sending - 1
            /\ UNCHANGED sentOnClosed
       ELSE /\ sentOnClosed' = TRUE
            /\ UNCHANGED sending
    /\ UNCHANGED <<now, account, market, engineVars, secretVars, statusWrites, received,
                   configPattern, deleteChecked, terminalOrders, unregistered,
                   lastEvent, lifecycle, keepAliveTask, execVars, histVars, dryRun, rowVars,
                   storeVars>>

\* for entry := range e.logQueue: the receiver takes what is in the channel
\* with the store closed SaveOrder returns an error
runAsyncLogger(saveOk) ==
    /\ InChannel > 0
    /\ ~sentOnClosed
    /\ lifecycle = "store_closed" => ~saveOk
    /\ RunAsyncLogger(saveOk)

\* Engine.Stop: executor.Close() closes logQueue, every client closes its
\* WebSocket connection; nothing else is signalled and nothing is awaited
Stop ==
    /\ lifecycle = "running"
    /\ lifecycle' = "stopped"
    /\ UNCHANGED <<now, account, market, engineVars, secretVars, asyncVars, terminalOrders,
               unregistered,
                   lastEvent, sending, keepAliveTask, execVars, histVars, dryRun, rowVars,
                   storeVars>>

\* main, after tradingEngine.Stop() and client.Stop(): repo.Close()
CloseStore ==
    /\ lifecycle = "stopped"
    /\ ~sentOnClosed
    /\ lifecycle' = "store_closed"
    /\ UNCHANGED <<now, account, market, engineVars, secretVars, asyncVars, terminalOrders,
               unregistered,
                   lastEvent, sending, keepAliveTask, execVars, histVars, dryRun, rowVars,
                   storeVars>>

NextLogQueue ==
    \/ \E symbol \in Symbols, ans \in AnswersTracked, saveOk \in BOOLEAN :
          ExecuteSignalHandingOver(symbol, ans, saveOk) /\ UNCHANGED intake
    \/ asyncLogOrder
    \/ \E saveOk \in BOOLEAN : runAsyncLogger(saveOk)
    \/ Stop
    \/ CloseStore

SpecLogQueue == InitTracked /\ [][NextLogQueue]_vars

\* =========================================================================
\* Order updates of the tracked executor (unnamed/part_009, part_007):
\* HandleOrderUpdate starts one goroutine per update for the status write.
\* =========================================================================
\* UPDATE orders SET status = ? WHERE binance_order_id = ?
SetOrderStatus(rows, orderID, status) ==
    {IF r.BinanceOrderID = <<"", orderID>> THEN [r EXCEPT !.Status = status] ELSE r : r \in rows}

\* ClosePosition: UPDATE positions SET status = 'closed' WHERE id = ?
ClosePosition(rows, positionID) ==
    {IF r.ID = positionID THEN [r EXCEPT !.Status = "closed"] ELSE r : r \in rows}

\* HandleOrderUpdate of the tracked executor: the status write is handed to
\* a new goroutine; a terminal update takes the order out of the pending map
\* and, when it is a fill of a protective order, closes the position
HandleOrderUpdateTracked(orderID, status) ==
    LET exists  == IsTerminal(status) /\ orderID \in DOMAIN pendingOrders
        posID   == IF exists THEN pendingOrders[orderID].PositionID ELSE 0
        closing == exists /\ status = "FILLED" /\ posID \in DOMAIN activePositions
    IN  /\ Len(received) < MaxEvents
        /\ IsTerminal(status) => ordersMu = "free"
        /\ received' = Append(received, [OrderID |-> orderID, Status |-> status])
        /\ statusWrites' = statusWrites \cup {Len(received) + 1}
        /\ pendingOrders' = IF exists THEN Without(pendingOrders, orderID) ELSE pendingOrders
        /\ positions' = IF closing THEN ClosePosition(positions, posID) ELSE positions
        /\ activePositions' = IF closing
                              THEN [id \in DOMAIN activePositions \ {posID} |-> activePositions[id]]
                              ELSE activePositions
        /\ UNCHANGED <<now, account, market, engineVars, secretVars, terminalOrders, unregistered,
                       lastEvent, lifeVars, configPattern, deleteChecked, sentOnClosed,
                       recentSignals, closedPositions, ordersMu, sweepTodo, nextOrderID, calls,
                       sigCount, lastExec, histVars, dryRun, orders, logQueue, storeVars>>

\* one of the started goroutines runs Repository.UpdateOrderStatus
UpdateOrderStatus(i) ==
    /\ i \in statusWrites
    /\ statusWrites' = statusWrites \ {i}
    /\ orders' = SetOrderStatus(orders, received[i].OrderID, received[i].Status)
    /\ UNCHANGED <<now, account, market, engineVars, secretVars, terminalOrders, unregistered,
                   lastEvent, lifeVars, received, configPattern, deleteChecked, sentOnClosed,
                   execVars, histVars, dryRun, positions, logQueue, activePositions, storeVars>>

OrderStatusAnswers == {[status |-> "NEW"] @@ AllOk}

NextOrderStatus ==
    \/ \E ans \in OrderStatusAnswers :
          /\ positions = {}
          /\ ExecuteSignalTracked("BTCUSDT", ans, TRUE) /\ UNCHANGED <<intake, sending>>
    \/ RunAsyncLogger(TRUE)
    \/ \E orderID \in 1..(nextOrderID - 1), status \in OrderStatuses :
          HandleOrderUpdateTracked(orderID, status)
    \/ \E i \in statusWrites : UpdateOrderStatus(i)

SpecOrderStatus == InitTracked /\ [][NextOrderStatus]_vars

\* =========================================================================
\* Shutdown (engine.go, executor.go, unnamed/part_011): the executor's
\* background loops and the client's keep-alive loop range over their
\* tickers; Engine.Stop closes logQueue and the WebSocket connections.
\* =========================================================================
\* keepAliveStream: one tick of the 30-minute ticker; the loop returns only
\* when the keep-alive request fails
keepAliveStream(ok) ==
    /\ keepAliveTask = "running"
    /\ calls' = <<Request("keepAlive", "keepalive", 0, "", ok)>>
    /\ keepAliveTask' = IF ok THEN "running" ELSE "ended"
    /\ UNCHANGED <<now, account, market, engineVars, secretVars, asyncVars, terminalOrders,
               unregistered,
                   lastEvent, sending, lifecycle, recentSignals, pendingOrders,
                   closedPositions, ordersMu, sweepTodo, nextOrderID, sigCount, lastExec,
                   histVars, dryRun, rowVars, storeVars>>

NextShutdown ==
    \/ \E symbol \in Symbols, ans \in Answers :
          lifecycle = "running" /\ ExecuteSignal(symbol, ans)
    \/ SweepTick
    \/ \E orderID \in sweepTodo, cancelOk \in BOOLEAN, closeOk \in BOOLEAN :
          SweepOrder(orderID, cancelOk, closeOk) /\ UNCHANGED terminalOrders
    \/ CleanupOldSignals
    \/ \E orderID \in DOMAIN pendingOrders, status \in OrderStatuses :
          /\ lifecycle = "running"
          /\ HandleOrderUpdate(orderID, status) /\ UNCHANGED <<terminalOrders, lastEvent>>
    \/ \E ok \in BOOLEAN : keepAliveStream(ok)
    \/ Tick
    \/ Stop

SpecShutdown == Init /\ [][NextShutdown]_vars


\* ------------------------------------- account store (unnamed/part_007)
\* Every db.Exec is a statement committed on its own: SaveAccount and
\* UpdateAccount write the row first and clear the other defaults in a
\* second statement.  clearPending holds the ids whose second statement has
\* not run yet.
AccountRow(isActive, isDefault) == [is_active |-> isActive, is_default |-> isDefault]

\* UPDATE binance_accounts SET is_default = 0 WHERE id != ?
UnsetOtherDefaults(rows, id) ==
    [i \in DOMAIN rows |-> IF i # id THEN [rows[i] EXCEPT !.is_default = FALSE] ELSE rows[i]]

\* the operation a pending second statement belongs to
Pending(id, op, isDefault) == IF isDefault THEN (id :> op) @@ pendingOp ELSE pendingOp

\* handleCreateAccount -> SaveAccount, up to and including the INSERT
CreateAccount(isDefault) ==
    /\ nextAccountID <= MaxAccounts
    /\ accounts' = (nextAccountID :> AccountRow(TRUE, isDefault)) @@ accounts
    /\ nextAccountID' = nextAccountID + 1
    /\ clearPending' = IF isDefault THEN clearPending \cup {nextAccountID} ELSE clearPending
    /\ pendingOp' = Pending(nextAccountID, "create", isDefault)
    /\ lastStoreOp' = StoreOp("create", nextAccountID, TRUE)
    /\ UNCHANGED <<now, account, market, engineVars, auxVars, execVars, histVars, dryRun,
                   rowVars>>

\* handleUpdateAccount -> UpdateAccount, up to and including the first
\* UPDATE; a missing id updates no row
UpdateAccount(id, isActive, isDefault) ==
    /\ id \notin clearPending
    /\ accounts' = IF id \in DOMAIN accounts
                   THEN [accounts EXCEPT ![id] = AccountRow(isActive, isDefault)]
                   ELSE accounts
    /\ clearPending' = IF isDefault THEN clearPending \cup {id} ELSE clearPending
    /\ pendingOp' = Pending(id, "update", isDefault)
    /\ lastStoreOp' = StoreOp("update", id, TRUE)
    /\ UNCHANGED <<now, account, market, engineVars, auxVars, execVars, histVars, dryRun,
                   rowVars, nextAccountID>>

\* handleSetDefaultAccount: account.IsDefault = true on the row just read
MarkDefault(rows, id) == [rows EXCEPT ![id].is_default = TRUE]

\* handleSetDefaultAccount: GetAccount, IsDefault = true, UpdateAccount up
\* to and including the first UPDATE
SetDefaultAccount(id) ==
    /\ id \in DOMAIN accounts
    /\ id \notin clearPending
    /\ accounts' = MarkDefault(accounts, id)
    /\ clearPending' = clearPending \cup {id}
    /\ pendingOp' = Pending(id, "set_default", TRUE)
    /\ lastStoreOp' = StoreOp("set_default", id, TRUE)
    /\ UNCHANGED <<now, account, market, engineVars, secretVars, auxVars, execVars, histVars,
                   dryRun, rowVars,
                   nextAccountID>>

\* the second statement of SaveAccount / UpdateAccount; when it fails the
\* error is returned and the first statement stays committed
ClearOtherDefaults(id, ok) ==
    /\ id \in clearPending
    /\ accounts' = IF ok THEN UnsetOtherDefaults(accounts, id) ELSE accounts
    /\ clearPending' = clearPending \ {id}
    /\ pendingOp' = [i \in DOMAIN pendingOp \ {id} |-> pendingOp[i]]
    /\ lastStoreOp' = StoreOp("clear_" \o pendingOp[id], id, ok)
    /\ UNCHANGED <<now, account, market, engineVars, secretVars, auxVars, execVars, histVars,
                   dryRun, rowVars,
                   nextAccountID>>

\* mutant: the count taken over the closed positions
HasClosedPositions(id) ==
    \E p \in positions : p.AccountID = id /\ p.Status = "closed"

\* SELECT COUNT(*) FROM positions WHERE account_id = ? AND status = 'open'
HasOpenPositions(id) ==
    \E p \in positions : p.AccountID = id /\ p.Status = "open"

\* DeleteAccount: refused with an error while the account has open positions
DeleteAccount(id) ==
    /\ accounts' = IF HasOpenPositions(id) THEN accounts
                   ELSE [i \in DOMAIN accounts \ {id} |-> accounts[i]]
    /\ lastStoreOp' = StoreOp("delete", id, ~HasOpenPositions(id))
    /\ UNCHANGED <<now, account, market, engineVars, secretVars, auxVars, execVars, histVars,
                   dryRun, rowVars,
                   nextAccountID, clearPending, pendingOp>>

InitStoreScenario ==
    /\ account = ScenarioAccount
    /\ market = ScenarioMarket
    /\ InitExecutor
    /\ dryRun = FALSE
    /\ positions \in {{}, {PositionRow(1, 1, "BTCUSDT")}}
    /\ orders = {}
    /\ logQueue = <<>>
    /\ activePositions = <<>>
    /\ InitStore
    /\ InitAux
    /\ InitEngine

NextStore ==
    \/ \E isDefault \in BOOLEAN : CreateAccount(isDefault) /\ UNCHANGED secretVars
    \/ \E id \in 1..MaxAccounts, isActive \in BOOLEAN, isDefault \in BOOLEAN :
          UpdateAccount(id, isActive, isDefault) /\ UNCHANGED secretVars
    \/ \E id \in 1..MaxAccounts : SetDefaultAccount(id)
    \/ \E id \in 1..MaxAccounts, ok \in BOOLEAN : ClearOtherDefaults(id, ok)
    \/ \E id \in 1..MaxAccounts : DeleteAccount(id)

SpecStore == InitStoreScenario /\ [][NextStore]_vars

\* ------------------------------------- DeleteAccount, statement by statement
\* DeleteAccount is a SELECT COUNT(*) and a DELETE, each run on its own, with
\* no transaction around the two; deleteChecked holds the ids whose count
\* came back zero and whose DELETE has not run yet.  No statement of the
\* repository sets PRAGMA foreign_keys, so the DELETE is not refused for the
\* rows that reference the account.
DeleteAccountCount(id) ==
    /\ id \notin deleteChecked
    /\ IF HasOpenPositions(id)
       THEN /\ lastStoreOp' = StoreOp("delete", id, FALSE)
            /\ UNCHANGED deleteChecked
       ELSE /\ deleteChecked' = deleteChecked \cup {id}
            /\ UNCHANGED lastStoreOp
    /\ UNCHANGED <<now, account, market, execVars, histVars, dryRun, rowVars, accounts,
                   nextAccountID, clearPending, pendingOp, engineVars, secretVars,
                   terminalOrders, unregistered, lastEvent, lifeVars, statusWrites,
                   received, configPattern, sentOnClosed>>

DeleteAccountExec(id) ==
    /\ id \in deleteChecked
    /\ deleteChecked' = deleteChecked \ {id}
    /\ accounts' = [i \in DOMAIN accounts \ {id} |-> accounts[i]]
    /\ lastStoreOp' = StoreOp("delete", id, TRUE)
    /\ UNCHANGED <<now, account, market, execVars, histVars, dryRun, rowVars,
                   nextAccountID, clearPending, pendingOp, engineVars, secretVars,
                   terminalOrders, unregistered, lastEvent, lifeVars, statusWrites,
                   received, configPattern, sentOnClosed>>

\* the dashboard creates and deletes accounts while the executor, bound to
\* account TrackedAccountID, executes signals
NextDelete ==
    \/ CreateAccount(FALSE) /\ UNCHANGED secretVars
    \/ \E symbol \in Listed, ans \in OrderStatusAnswers, saveOk \in BOOLEAN :
          ExecuteSignalTracked(symbol, ans, saveOk) /\ UNCHANGED <<intake, sending>>
    \/ \E id \in 1..MaxAccounts : DeleteAccountCount(id)
    \/ \E id \in 1..MaxAccounts : DeleteAccountExec(id)

SpecDelete == InitTracked /\ [][NextDelete]_vars

\* ------------------------------------- credentials (unnamed/part_013)
\* secrets of the lengths around the two thresholds of the mask, made of
\* distinct characters
SecretAlphabet == <<"a", "b", "c", "d", "e", "f", "g", "h", "i", "j">>
SecretLengths == {1, 4, 5, 8, 9}
Secrets == {SubSeq(SecretAlphabet, 1, n) : n \in SecretLengths}

\* acc.APISecret[:4] + "..." + acc.APISecret[len(acc.APISecret)-4:] when
\* len(acc.APISecret) > 4, the secret itself otherwise
MaskSecret(secret) ==
    IF Len(secret) > 4
    THEN SubSeq(secret, 1, 4) \o <<".", ".", ".">> \o SubSeq(secret, Len(secret) - 3, Len(secret))
    ELSE secret

Shown(id, secret, shown) == [id |-> id, secret |-> secret, shown |-> shown]

\* handleGetAccounts: every row, its secret masked
handleGetAccounts ==
    /\ response' = [handler |-> "list",
                    entries |-> {Shown(id, apiSecrets[id], MaskSecret(apiSecrets[id])) :
                                    id \in DOMAIN apiSecrets}]
    /\ UNCHANGED <<now, account, market, engineVars, auxVars, execVars, histVars, dryRun,
                   rowVars, storeVars, apiSecrets>>

\* handleGetAccount: one row, its secret masked; 404 without a row
handleGetAccount(id) ==
    /\ response' = IF id \in DOMAIN apiSecrets
                   THEN [handler |-> "get",
                         entries |-> {Shown(id, apiSecrets[id], MaskSecret(apiSecrets[id]))}]
                   ELSE [handler |-> "get", entries |-> {}]
    /\ UNCHANGED <<now, account, market, engineVars, auxVars, execVars, histVars, dryRun,
                   rowVars, storeVars, apiSecrets>>

\* handleCreateAccount: SaveAccount, then the decoded request is the body
\* of the response
handleCreateAccount(secret, isDefault) ==
    /\ secret # <<>>
    /\ CreateAccount(isDefault)
    /\ apiSecrets' = (nextAccountID :> secret) @@ apiSecrets
    /\ response' = [handler |-> "create", entries |-> {Shown(nextAccountID, secret, secret)}]

\* handleUpdateAccount: UpdateAccount writes every column from the request,
\* then the decoded request is the body of the response
handleUpdateAccount(id, secret, isActive, isDefault) ==
    /\ UpdateAccount(id, isActive, isDefault)
    /\ apiSecrets' = IF id \in DOMAIN apiSecrets THEN [apiSecrets EXCEPT ![id] = secret]
                     ELSE apiSecrets
    /\ response' = [handler |-> "update",
                    entries |-> IF id \in DOMAIN apiSecrets THEN {Shown(id, secret, secret)}
                                ELSE {}]

NextSecrets ==
    \/ \E secret \in Secrets : handleCreateAccount(secret, FALSE)
    \/ \E id \in 1..MaxAccounts, secret \in Secrets \cup {<<>>} :
          handleUpdateAccount(id, secret, TRUE, FALSE)
    \/ \E id \in 1..MaxAccounts : handleGetAccount(id)
    \/ handleGetAccounts

SpecSecrets == InitStoreScenario /\ [][NextSecrets]_vars

\* the dashboard reads an account and writes the body it was given back:
\* the PUT carries the masked secret of the GET and the flags of the row
PutBack(id) ==
    /\ response.handler = "get"
    /\ id \in DOMAIN accounts
    /\ \E e \in response.entries :
          /\ e.id = id
          /\ handleUpdateAccount(id, e.shown, accounts[id].is_active, accounts[id].is_default)

NextRoundTrip ==
    \/ \E secret \in Secrets : handleCreateAccount(secret, FALSE)
    \/ \E id \in 1..MaxAccounts : handleGetAccount(id)
    \/ \E id \in 1..MaxAccounts : PutBack(id)

SpecRoundTrip == InitStoreScenario /\ [][NextRoundTrip]_vars

\* ------------------------------------- settings (unnamed/part_013)
\* handleUpdateConfig: the trading fields of the request are written to the
\* live configuration as they come, without Config.Validate; a field the
\* request leaves out keeps its value
handleUpdateConfig(enabled, acct, dry) ==
    /\ tradingEnabled' = enabled
    /\ account' = acct
    /\ dryRun' = dry
    /\ UNCHANGED <<now, market, secretVars, auxVars, parser, executor, ignoreList, intake,
                   symbolRun, execVars,
                   histVars, rowVars, storeVars>>

\* ------------------------------------- signal parser (executor.go 554-659)
\* A string is the sequence of its characters.
Lowers == <<"a", "b", "c", "d", "e", "f", "g", "h", "i", "j", "k", "l", "m",
            "n", "o", "p", "q", "r", "s", "t", "u", "v", "w", "x", "y", "z">>
Uppers == <<"A", "B", "C", "D", "E", "F", "G", "H", "I", "J", "K", "L", "M",
            "N", "O", "P", "Q", "R", "S", "T", "U", "V", "W", "X", "Y", "Z">>
Digits == {"0", "1", "2", "3", "4", "5", "6", "7", "8", "9"}
Range(f) == {f[i] : i \in DOMAIN f}

\* strings.ToUpper
ToUpper(s) ==
    [i \in 1..Len(s) |->
        IF s[i] \in Range(Lowers)
        THEN Uppers[CHOOSE k \in DOMAIN Lowers : Lowers[k] = s[i]]
        ELSE s[i]]

IsSpace(c) == c \in {" ", "\t", "\n", "\r"}

\* strings.TrimSpace
TrimSpace(s) ==
    LET kept == {i \in 1..Len(s) : ~IsSpace(s[i])}
    IN  IF kept = {} THEN <<>>
        ELSE SubSeq(s, CHOOSE i \in kept : \A j \in kept : i <= j,
                       CHOOSE i \in kept : \A j \in kept : j <= i)

HasPrefix(s, prefix) == Len(s) >= Len(prefix) /\ SubSeq(s, 1, Len(prefix)) = prefix
HasSuffix(s, suffix) ==
    Len(s) >= Len(suffix) /\ SubSeq(s, Len(s) - Len(suffix) + 1, Len(s)) = suffix
TrimPrefix(s, prefix) == IF HasPrefix(s, prefix) THEN SubSeq(s, Len(prefix) + 1, Len(s)) ELSE s
TrimSuffix(s, suffix) == IF HasSuffix(s, suffix) THEN SubSeq(s, 1, Len(s) - Len(suffix)) ELSE s

USDT == <<"U", "S", "D", "T">>

\* SignalParser.normalizeSymbol without the final append
StripAffixes(symbol) ==
    TrimSuffix(TrimSuffix(TrimSuffix(TrimPrefix(TrimPrefix(symbol, <<"$">>), <<"#">>),
                                     <<"/">> \o USDT), <<"-">> \o USDT), <<"_">> \o USDT)

\* SignalParser.normalizeSymbol
normalizeSymbol(symbol) ==
    LET stripped == StripAffixes(symbol)
    IN  IF ~HasSuffix(stripped, USDT) THEN stripped \o USDT ELSE stripped

\* Parse: what it makes of the first captured group
CapturedSymbol(group) == normalizeSymbol(ToUpper(TrimSpace(group)))

\* SignalParser.IsValidSymbol
IsValidSymbol(symbol) ==
    /\ Len(symbol) >= 4
    /\ Len(symbol) <= 20
    /\ HasSuffix(symbol, USDT)
    /\ \A i \in 1..Len(symbol) : symbol[i] \in Range(Uppers) \cup Digits

\* the compiled pattern, one of three: "group" is \$(\S+), "optional" is
\* \$(\S*), "nogroup" is \$\S+
PatternKinds == {"group", "optional", "nogroup"}

\* the end of the longest run of non-space characters that starts at i
RunEnd(text, i) ==
    CHOOSE j \in (i - 1)..Len(text) :
        /\ \A k \in i..j : ~IsSpace(text[k])
        /\ j = Len(text) \/ IsSpace(text[j + 1])

\* regexp.FindStringSubmatch: the leftmost match and its groups, or nothing
FindStringSubmatch(pattern, text) ==
    LET starts == {i \in 1..Len(text) :
                      /\ text[i] = "$"
                      /\ pattern = "optional" \/ (i < Len(text) /\ ~IsSpace(text[i + 1]))}
    IN  IF starts = {} THEN <<>>
        ELSE LET i == CHOOSE a \in starts : \A b \in starts : a <= b
                 j == RunEnd(text, i + 1)
             IN  IF pattern = "nogroup" THEN <<SubSeq(text, i, j)>>
                 ELSE <<SubSeq(text, i, j), SubSeq(text, i + 1, j)>>

NoSignal == [signal |-> FALSE, err |-> FALSE, symbol |-> <<>>]

\* SignalParser.Parse of a parser that is not nil
Parse(pattern, text) ==
    IF text = <<>> THEN NoSignal
    ELSE LET matches == FindStringSubmatch(pattern, text)
         IN  IF Len(matches) = 0 THEN NoSignal
             ELSE IF Len(matches) > 1
                  THEN [signal |-> TRUE, err |-> FALSE, symbol |-> CapturedSymbol(matches[2])]
                  ELSE [NoSignal EXCEPT !.err = TRUE]

\* the Go string of a sequence of characters
RECURSIVE Join(_)
Join(s) == IF s = <<>> THEN "" ELSE Head(s) \o Join(Tail(s))

\* ------------------------------------- normalization applied twice
MaxPieces == 3

RawPieces ==
    { <<"$">>, <<"#">>, <<" ">>, <<"b", "t", "c">>, <<"B", "T", "C">>, USDT,
      <<"/">> \o USDT, <<"-">> \o USDT, <<"_">> \o USDT }

RECURSIVE Concatenations(_)
Concatenations(n) ==
    IF n = 0 THEN {<<>>}
    ELSE LET shorter == Concatenations(n - 1)
         IN  shorter \cup {a \o b : a \in shorter, b \in RawPieces}

\* the raw captured strings: up to MaxPieces pieces in a row
RawCaptures == Concatenations(MaxPieces)

\* the conversion of Parse applied to the raw string, then to its own result
ApplyNormalize ==
    /\ symbolRun.applied < 2
    /\ symbolRun' =
          IF symbolRun.applied = 0
          THEN [symbolRun EXCEPT !.applied = 1, !.once = CapturedSymbol(symbolRun.raw)]
          ELSE [symbolRun EXCEPT !.applied = 2, !.twice = CapturedSymbol(symbolRun.once)]
    /\ UNCHANGED <<now, account, market, secretVars, auxVars, tradingEnabled, parser,
                   executor, ignoreList, intake,
                   execVars, histVars, dryRun, rowVars, storeVars>>

InitNormalize ==
    /\ symbolRun \in {[NoRun EXCEPT !.raw = x] : x \in RawCaptures}
    /\ tradingEnabled = TRUE
    /\ parser = "group"
    /\ executor = "set"
    /\ ignoreList = {}
    /\ intake = NoIntake
    /\ account = ScenarioAccount
    /\ market = ScenarioMarket
    /\ InitExecutor
    /\ InitRows
    /\ InitStore
    /\ InitAux

NextNormalize == ApplyNormalize

SpecNormalize == InitNormalize /\ [][NextNormalize]_vars

\* ------------------------------------- engine (internal/trading/engine.go)
MaxMessages == 3

\* where ProcessMessage leaves; a nil parser is dereferenced by Parse at
\* p.pattern, after its test for an empty text
IntakeStage(text) ==
    IF ~tradingEnabled THEN "disabled"
    ELSE IF parser = "nil" THEN (IF text = <<>> THEN "no_signal" ELSE "panic")
    ELSE IF Parse(parser, text).err THEN "parse_error"
    ELSE IF ~Parse(parser, text).signal THEN "no_signal"
    ELSE IF ~IsValidSymbol(Parse(parser, text).symbol) THEN "invalid_symbol"
    ELSE IF executor = "nil" THEN "no_executor"
    ELSE "execute"

\* Engine.ProcessMessage, the call of ExecuteSignal included; a panic ends
\* the process
ProcessMessage(text, ans, saveOk) ==
    LET stage  == IntakeStage(text)
        symbol == IF stage \in {"invalid_symbol", "no_executor", "execute"}
                  THEN Join(Parse(parser, text).symbol) ELSE ""
    IN  /\ intake.outcome # "panic"
        /\ intake.msg < MaxMessages
        /\ IF stage = "execute"
           THEN /\ ExecuteSignalTracked(symbol, ans, saveOk)
                /\ UNCHANGED sending
                /\ intake' = [msg |-> intake.msg + 1, text |-> text,
                              outcome |-> IF lastExec'.ret = "nil" THEN "executed"
                                          ELSE "execute_failed",
                              symbol |-> symbol, ret |-> lastExec'.ret,
                              errorLogged |-> lastExec'.ret = "error"]
           ELSE /\ intake' = [msg |-> intake.msg + 1, text |-> text, outcome |-> stage,
                              symbol |-> symbol,
                              ret |-> IF stage \in {"parse_error", "no_executor"}
                                      THEN "error" ELSE "nil",
                              errorLogged |-> stage \in {"parse_error", "no_executor"}]
                /\ UNCHANGED <<now, account, market, secretVars, auxVars, tradingEnabled,
                               parser, executor,
                               ignoreList, symbolRun, execVars, histVars, dryRun, rowVars,
                               storeVars>>

\* message texts: empty, chatter, a bare marker, a listed symbol, an
\* unlisted one, one that is no symbol
MessageTexts ==
    { <<>>, <<"h", "i">>, <<"$">>, <<"b", "u", "y", " ", "$", "b", "t", "c">>,
      <<"$", "x", "y", "z">>, <<"$", "b", "-", "c">> }

EngineAnswers ==
    {[status |-> "FILLED"] @@ AllOk, [status |-> "FILLED"] @@ [AllOk EXCEPT !.price = "error"]}

\* NewEngine: without trading enabled neither parser nor executor is built;
\* with it the executor is built only when a default account exists
InitEngineScenario ==
    /\ tradingEnabled \in BOOLEAN
    /\ parser \in (IF tradingEnabled THEN PatternKinds ELSE {"nil"})
    /\ executor \in (IF tradingEnabled THEN {"set", "nil"} ELSE {"nil"})
    /\ ignoreList \in {{}, {"BTC"}, {"BTCUSDT"}}
    /\ intake = NoIntake
    /\ symbolRun = NoRun
    /\ account = ScenarioAccount
    /\ market = ScenarioMarket
    /\ InitExecutor
    /\ InitRows
    /\ InitStore
    /\ InitAux

NextEngine ==
    \/ \E text \in MessageTexts, ans \in EngineAnswers : ProcessMessage(text, ans, TRUE)
    \/ \E enabled \in BOOLEAN :
          intake.outcome # "panic" /\ handleUpdateConfig(enabled, account, dryRun)
    \/ RunAsyncLogger(TRUE)

SpecEngine == InitEngineScenario /\ [][NextEngine]_vars

\* ------------------------------------- signal pattern set at run time
\* handleUpdateConfig with a request that holds trading.signal_pattern
\* alone: the string goes to the live configuration (and to the settings
\* table); the parser NewSignalParser compiled at start is left as it is
handleUpdateSignalPattern(pattern) ==
    /\ pattern # configPattern
    /\ configPattern' = pattern
    /\ UNCHANGED <<now, account, market, execVars, histVars, dryRun, rowVars, storeVars,
                   engineVars, secretVars, terminalOrders, unregistered, lastEvent,
                   lifeVars, statusWrites, received, deleteChecked, sentOnClosed>>

NextPattern ==
    \/ \E text \in MessageTexts, ans \in EngineAnswers : ProcessMessage(text, ans, TRUE)
    \/ \E pattern \in PatternKinds : handleUpdateSignalPattern(pattern)
    \/ RunAsyncLogger(TRUE)

SpecPattern == Init /\ [][NextPattern]_vars

\* ------------------------------------- trading parameters set at run time
\* both executors under parameters the dashboard may set: leverage on both sides of both ends of [1, MaxLeverage], the amounts
\* zero or positive
SettingsAccounts ==
    [Leverage : {0, 1, MaxLeverage, MaxLeverage + 1}, OrderAmount : {0, 4},
     TargetPercent : {0, 2}, StopLossPercent : {0, 1}, OrderTimeout : {6}]

SettingsAnswers == {AllOk, [AllOk EXCEPT !.price = "error"], [AllOk EXCEPT !.leverage = FALSE]}

InitSettings ==
    /\ account \in SettingsAccounts
    /\ market = ScenarioMarket
    /\ InitExecutor
    /\ InitRows
    /\ InitStore
    /\ InitAux
    /\ InitEngine

NextSettings ==
    \/ \E symbol \in Listed, ans \in SettingsAnswers : ExecuteSignal(symbol, ans)
    \/ \E symbol \in Listed, ans \in SettingsAnswers :
          ExecuteSignalTracked(symbol, [status |-> "FILLED"] @@ ans, TRUE)
             /\ UNCHANGED <<intake, sending>>
    \/ \E acct \in SettingsAccounts, dry \in BOOLEAN :
          handleUpdateConfig(tradingEnabled, acct, dry)

SpecSettings == InitSettings /\ [][NextSettings]_vars

\* =========================================================================
\* The engine and the account store together (engine.go, unnamed/part_007):
\* NewEngine reads the default account once and builds the executor on that
\* account's client; the dashboard changes the store while the engine runs.
\* =========================================================================
\* SELECT ... WHERE is_default = 1 AND is_active = 1: the ids that qualify
GetDefaultAccount(rows) ==
    {id \in DOMAIN rows : rows[id].is_default /\ rows[id].is_active}

\* NewEngine: the executor is built only when there is a default account,
\* and executor.accountID is that account's id
NewEngineExecutor(rows) ==
    IF GetDefaultAccount(rows) # {} THEN "set" ELSE "nil"

SignalText == <<"b", "u", "y", " ", "$", "b", "t", "c">>

InitBinding ==
    /\ accounts \in {<<>>, (TrackedAccountID :> AccountRow(TRUE, TRUE))}
    /\ nextAccountID = Cardinality(DOMAIN accounts) + 1
    /\ clearPending = {}
    /\ pendingOp = <<>>
    /\ lastStoreOp = NoStoreOp
    /\ apiSecrets = <<>>
    /\ response = NoResponse
    /\ tradingEnabled = TRUE
    /\ parser = "group"
    /\ executor = NewEngineExecutor(accounts)
    /\ ignoreList = {}
    /\ intake = NoIntake
    /\ symbolRun = NoRun
    /\ account = ScenarioAccount
    /\ market = ScenarioMarket
    /\ InitExecutor
    /\ InitRows
    /\ InitAux

NextBinding ==
    \/ \E text \in {SignalText, <<"h", "i">>}, ans \in EngineAnswers :
          ProcessMessage(text, ans, TRUE)
    \/ RunAsyncLogger(TRUE)
    \/ \E isDefault \in BOOLEAN : CreateAccount(isDefault) /\ UNCHANGED secretVars
    \/ \E id \in 1..MaxAccounts : SetDefaultAccount(id)
    \/ \E id \in 1..MaxAccounts, ok \in BOOLEAN : ClearOtherDefaults(id, ok)

SpecBinding == InitBinding /\ [][NextBinding]_vars

\* =================================================================== claims
\* what a step of ExecuteSignal sent to the exchange
ExecStep == sigCount' = sigCount + 1
SentNow  == IF calls' # calls THEN calls' ELSE <<>>

Indices(batch) == 1..Len(batch)
IsEntry(c) == c.op = "order" /\ c.by = "execute" /\ c.type = "MARKET" /\ c.side = "BUY"
IsProtective(c) ==
    c.op = "order" /\ c.by = "execute" /\ c.side = "SELL" /\ c.reduceOnly
    /\ c.type \in {"TAKE_PROFIT_MARKET", "STOP_MARKET"}
IsForcedClose(c) ==
    c.op = "order" /\ c.type = "MARKET" /\ c.side = "SELL" /\ c.reduceOnly
Dispatched(batch) == \E i \in Indices(batch) : IsEntry(batch[i])
EntryRejected(batch) == \E i \in Indices(batch) : IsEntry(batch[i]) /\ ~batch[i].ok
EntryAccepted(batch) == \E i \in Indices(batch) : IsEntry(batch[i]) /\ batch[i].ok
ProtectiveRejected(batch) == \E i \in Indices(batch) : IsProtective(batch[i]) /\ ~batch[i].ok
AcceptedProtective(batch) ==
    {batch[i].orderID : i \in {j \in Indices(batch) : IsProtective(batch[j]) /\ batch[j].ok}}
CancelIndices(batch) == {i \in Indices(batch) : batch[i].op = "cancel"}
CancelledIDs(batch) == {batch[i].orderID : i \in CancelIndices(batch)}

\* C2 (as stated): two signals for one symbol never reach the parallel
\* dispatch less than 48 hours apart, whatever the exchange answered to the
\* earlier one.
C2_DispatchOncePerWindow ==
    [][ (ExecStep /\ Dispatched(SentNow))
        => LET s == lastExec'.symbol
           IN  dispatchedAt[s] = NoTime \/ now - dispatchedAt[s] >= DedupWindow ]_vars

\* C2 (amended): a signal reaches the parallel dispatch only if no signal for
\* its symbol had its entry accepted less than 48 hours before; a dispatch
\* whose entry was rejected does not arm the gate.
C2_AcceptedOncePerWindow ==
    [][ (ExecStep /\ Dispatched(SentNow))
        => LET s == lastExec'.symbol
           IN  acceptedAt[s] = NoTime \/ now - acceptedAt[s] >= DedupWindow ]_vars

\* two entries of one symbol were accepted, the second after the window
C2_Witness ==
    \E a \in DOMAIN brackets, b \in DOMAIN brackets :
        a < b /\ brackets[a].symbol = brackets[b].symbol

\* C3 (as stated): the sweeper submits at most one forced close per symbol.
C3_OneCloseSubmitted ==
    \A s \in Symbols : closeCount[s].submitted <= 1

\* C3 (amended): at most one forced close per symbol is accepted by the
\* exchange; a close that the exchange rejects is submitted again when the
\* sibling order times out.
C3_OneCloseAccepted ==
    \A s \in Symbols : closeCount[s].accepted <= 1

\* TP and SL of one position both timed out: the first close was rejected,
\* the second accepted
C3_Witness ==
    \E s \in Symbols : closeCount[s].submitted = 2 /\ closeCount[s].accepted = 1

\* C7: when the entry order is rejected, ExecuteSignal cancels exactly the
\* protective orders the exchange accepted, returns an error, leaves the
\* pending map and recentSignals as they were, and the symbol is not
\* suppressed afterwards.
C7_EntryRejectedRollsBack ==
    [][ (ExecStep /\ EntryRejected(SentNow))
        => /\ CancelledIDs(SentNow) = AcceptedProtective(SentNow)
           /\ Cardinality(CancelIndices(SentNow)) = Cardinality(AcceptedProtective(SentNow))
           /\ lastExec'.ret = "error"
           /\ pendingOrders' = pendingOrders
           /\ recentSignals' = recentSignals
           /\ LET s == lastExec'.symbol
              IN  recentSignals'[s] = NoTime \/ now' - recentSignals'[s] >= DedupWindow ]_vars

\* an entry was rejected while both protective orders had been accepted
C7_Witness ==
    /\ EntryRejected(calls)
    /\ Cardinality(AcceptedProtective(calls)) = 2
    /\ Cardinality(CancelIndices(calls)) = 2

\* C8: when the entry is accepted and TP and/or SL is rejected,
\* ExecuteSignal sends no cancel and no closing order, returns success and
\* registers exactly the accepted protective orders; ExecuteSignal sends a
\* cancel only in a step whose entry was rejected.
C8_ProtectiveFailureKeepsEntry ==
    [][ ExecStep
        => /\ (EntryAccepted(SentNow) /\ ProtectiveRejected(SentNow))
              => /\ CancelIndices(SentNow) = {}
                 /\ \A i \in Indices(SentNow) : ~IsForcedClose(SentNow[i])
                 /\ lastExec'.ret = "nil"
                 /\ DOMAIN pendingOrders' \ DOMAIN pendingOrders = AcceptedProtective(SentNow)
                 /\ \A id \in DOMAIN pendingOrders :
                        id \in DOMAIN pendingOrders' /\ pendingOrders'[id] = pendingOrders[id]
           /\ (CancelIndices(SentNow) # {}) => EntryRejected(SentNow) ]_vars

\* an accepted entry whose take-profit was rejected and whose stop-loss is
\* the only registered order
C8_Witness ==
    /\ EntryAccepted(calls)
    /\ ProtectiveRejected(calls)
    /\ Cardinality(AcceptedProtective(calls)) = 1
    /\ AcceptedProtective(calls) \subseteq DOMAIN pendingOrders

\* C9: a signal whose symbol was recorded less than 48 hours ago returns
\* success without any exchange call, without any row written, and leaves
\* recentSignals and the pending map unchanged.
C9_DuplicateIsSkipped ==
    [][ (ExecStep /\ LET s == lastExec'.symbol
                     IN  recentSignals[s] # NoTime /\ now - recentSignals[s] < DedupWindow)
        => /\ lastExec'.ret = "nil"
           /\ calls' = calls
           /\ nextOrderID' = nextOrderID
           /\ UNCHANGED <<recentSignals, pendingOrders, positions, orders, logQueue>> ]_vars

\* a second signal for a symbol was dropped at the gate
C9_Witness ==
    /\ lastExec.stage = "duplicate"
    /\ recentSignals[lastExec.symbol] # NoTime
    /\ now - recentSignals[lastExec.symbol] < DedupWindow

\* C10: every position that had a protective order swept by timeout had a
\* forced close (MARKET SELL reduceOnly of its quantity) submitted for it.
C10_TimeoutForcesClose ==
    \A sig \in DOMAIN brackets : brackets[sig].swept => brackets[sig].closeSubmitted


\* ------------------------------------------------------ filter conformance
Sel == SelectFilters(market.info.filters, NoSelection)
HasLotStep  == Sel.lot # NoFilter /\ Sel.lot.stepSize > 0
HasTick     == Sel.price # NoFilter /\ Sel.price.tickSize > 0
HasNotional == Sel.notional # NoFilter /\ Sel.notional.minNotional # NoStep
IsMultiple(r, step) == r.n % (r.d * step) = 0
RatLE(a, b) == ~RatLT(b, a)
SubmittedOrders == {calls[i] : i \in {j \in Indices(calls) : calls[j].op = "order"}}
RawQuantity == Rat(account.OrderAmount, market.price)

InRange(lo, hi) == hi = 0 \/ lo <= hi
C6_NotionalFloor ==
    \A c \in SubmittedOrders :
        HasNotional =>
            RatLE(RatInt(Sel.notional.minNotional), RatMul(c.quantity, RatInt(market.price)))


\* ------------------------------------------------------------ store rows
\* C1: after every committed statement of the account store, at most one
\* account is both active and default.
C1_DefaultUniqueness ==
    Cardinality({id \in DOMAIN accounts :
                    accounts[id].is_active /\ accounts[id].is_default}) <= 1

\* C4: every Position row has an Order row with purpose entry and status
\* FILLED or PARTIALLY_FILLED (looked at when the asynchronous logger has
\* written everything it was given).
C4_PositionHasFilledEntry ==
    logQueue = <<>> =>
        \A p \in positions :
            \E o \in orders :
                /\ o.PositionID = p.ID
                /\ o.OrderPurpose = "entry"
                /\ o.Status \in {"FILLED", "PARTIALLY_FILLED"}

\* ------------------------------------------------------------------ C11
\* C11: ExecuteSignal with trading parameters out of range (leverage
\* outside [1, 125], or an order amount, target percentage or stop-loss
\* percentage that is not positive) fails with the misconfiguration error,
\* submits no order and changes neither leverage nor margin type.
OutOfRange(acct) ==
    \/ acct.Leverage < 1
    \/ acct.Leverage > 125
    \/ acct.OrderAmount <= 0
    \/ acct.TargetPercent <= 0
    \/ acct.StopLossPercent <= 0

ChangesExchange(batch) ==
    \E i \in Indices(batch) :
        \/ batch[i].op = "order"
        \/ batch[i].op \in {"leverage", "marginType"} /\ batch[i].ok

C11_InvalidAccountRejected ==
    [][ (ExecStep /\ OutOfRange(account))
        => /\ lastExec'.stage = "invalid_account"
           /\ lastExec'.ret = "error"
           /\ ~ChangesExchange(SentNow) ]_vars

\* ------------------------------------------------------------------ C12
\* C12: ProcessMessage never panics, whatever the messages, the switches
\* of trading.enabled at run time and the accounts found at startup.
C12_ProcessMessageNeverPanics == intake.outcome # "panic"

\* ------------------------------------------------------------------ C13
\* C13: symbol normalization is idempotent, normalize(normalize(x)) =
\* normalize(x) for every raw captured string x, and it maps "$BTC",
\* "BTC/USDT" and "btc" to "BTCUSDT".
BTCUSDT == <<"B", "T", "C">> \o USDT

C13_NormalizeIdempotent ==
    /\ symbolRun.applied = 2 => symbolRun.twice = symbolRun.once
    /\ (symbolRun.applied >= 1
        /\ symbolRun.raw \in {<<"$", "B", "T", "C">>, <<"B", "T", "C", "/">> \o USDT,
                              <<"b", "t", "c">>})
       => symbolRun.once = BTCUSDT

\* ------------------------------------------------------------------ C14
\* C14: a message whose normalized symbol is on the ignore list of the
\* settings, listed bare (BTC) or with the USDT suffix (BTCUSDT), hands no
\* signal to the executor and causes no exchange call.
MessageStep == intake'.msg = intake.msg + 1

Ignored(symbol) ==
    \E token \in ignoreList : symbol = token \/ symbol = token \o "USDT"

C14_IgnoredSymbolDropped ==
    [][ (MessageStep /\ Ignored(intake'.symbol))
        => /\ sigCount' = sigCount
           /\ SentNow = <<>>
           /\ intake'.outcome \notin {"executed", "execute_failed"} ]_vars

\* ------------------------------------------------------------------ C15
\* C15: with trading.dry_run set, ExecuteSignal returns early: it submits
\* no order and writes no Position row and no Order row.
C15_DryRunWritesNothing ==
    [][ (ExecStep /\ dryRun)
        => /\ \A i \in Indices(SentNow) : SentNow[i].op # "order"
           /\ positions' = positions
           /\ orders' = orders
           /\ logQueue' = logQueue ]_vars

\* ------------------------------------------------------------------ C16
\* C16: when all three orders of a signal are accepted, exactly one
\* Position row and three Order rows of that signal are persisted once
\* nothing waits in the log queue any more.
AllThreeAccepted(sig) == Cardinality(brackets[sig].protective) = 2

RowsOf(sig) == {p \in positions : p.SignalID = sig}

C16_AcceptedBracketPersisted ==
    \A sig \in DOMAIN brackets :
        (AllThreeAccepted(sig) /\ logQueue = <<>>)
        => /\ Cardinality(RowsOf(sig)) = 1
           /\ \A p \in RowsOf(sig) : Cardinality({o \in orders : o.PositionID = p.ID}) = 3

\* ------------------------------------------------------------------ C17
\* C17: deleting an account that has at least one open Position fails
\* with an error and leaves every row of the store as it was.
DeleteStep == lastStoreOp'.op = "delete"

OpenPositionOf(id) == \E p \in positions : p.AccountID = id /\ p.Status = "open"

C17_DeleteRefusedWithOpenPosition ==
    [][ (DeleteStep /\ OpenPositionOf(lastStoreOp'.id))
        => /\ ~lastStoreOp'.ok
           /\ accounts' = accounts
           /\ positions' = positions
           /\ orders' = orders ]_vars

\* a delete of an existing account with an open position was refused
C17_Witness ==
    /\ lastStoreOp.op = "delete"
    /\ ~lastStoreOp.ok
    /\ lastStoreOp.id \in DOMAIN accounts
    /\ OpenPositionOf(lastStoreOp.id)

\* ------------------------------------------------------------------ C18
\* C18: set-default(id) is idempotent, performing it once more leaves the
\* account flags as they are, and after it completes (both statements
\* committed) at most one active account is default.
SetDefaultCompleted == lastStoreOp.op = "clear_set_default" /\ lastStoreOp.ok

ActiveDefaults(rows) == {i \in DOMAIN rows : rows[i].is_active /\ rows[i].is_default}

\* both statements of set-default(id) on the rows
SetDefaultOn(rows, id) ==
    IF id \in DOMAIN rows THEN UnsetOtherDefaults(MarkDefault(rows, id), id) ELSE rows

C18_SetDefaultIdempotent ==
    SetDefaultCompleted
    => /\ Cardinality(ActiveDefaults(accounts)) <= 1
       /\ SetDefaultOn(accounts, lastStoreOp.id) = accounts

\* ------------------------------------------------------------------ C19
\* C19: in every execution path the take-profit price is entry * (1 +
\* target / leverage) and the stop-loss price entry * (1 - stoploss /
\* leverage), the percentage divided by the leverage, rounded to the tick.
DividedByLeverage(pct, sign) ==
    RoundPrice(Rat(market.price * (PctDen * account.Leverage + sign * pct),
                   PctDen * account.Leverage), Sel, market.info)

C19_BracketDividesByLeverage ==
    \A c \in SubmittedOrders :
        /\ c.type = "TAKE_PROFIT_MARKET"
              => RatEQ(c.stopPrice, DividedByLeverage(account.TargetPercent, 1))
        /\ c.type = "STOP_MARKET"
              => RatEQ(c.stopPrice, DividedByLeverage(account.StopLossPercent, -1))

\* ------------------------------------------------------------------ C20
\* C20: Parse returns no signal and no error whenever the text does not
\* match the pattern or the match captured no group; the intake drops such
\* a message without an ERROR log and without any change of state.
NoCapture(pattern, text) ==
    LET matches == FindStringSubmatch(pattern, text)
    IN  Len(matches) <= 1 \/ matches[2] = <<>>

C20_UnmatchedDropped ==
    [][ (MessageStep /\ tradingEnabled /\ parser # "nil" /\ NoCapture(parser, intake'.text))
        => /\ Parse(parser, intake'.text) = NoSignal
           /\ intake'.outcome = "no_signal"
           /\ intake'.ret = "nil"
           /\ ~intake'.errorLogged
           /\ UNCHANGED <<execVars, histVars, rowVars, storeVars>> ]_vars

\* ------------------------------------------------------------------ C21
\* C21: no dashboard response about accounts contains the full api_secret
\* of an account; a secret is shown only as its first four characters,
\* three dots and its last four characters, whatever its length.
Contains(text, part) ==
    \E i \in 1..(Len(text) - Len(part) + 1) : SubSeq(text, i, i + Len(part) - 1) = part

FirstAndLastFour(secret) ==
    LET n == IF Len(secret) < 4 THEN Len(secret) ELSE 4
    IN  SubSeq(secret, 1, n) \o <<".", ".", ".">>
        \o SubSeq(secret, Len(secret) - n + 1, Len(secret))

C21_SecretNeverDisclosed ==
    \A e \in response.entries :
        e.secret # <<>>
        => /\ ~Contains(e.shown, e.secret)
           /\ e.shown = FirstAndLastFour(e.secret)

\* C22: a protective order that reached a terminal state (a FILLED, CANCELED
\* or EXPIRED update for it was delivered, or the sweeper removed it) is not
\* in the pending map, at any later moment and for every interleaving of the
\* user-data callback with the registrations that follow the dispatch.
C22_TerminalNeverPending ==
    \A orderID \in terminalOrders : orderID \notin DOMAIN pendingOrders

\* C23: in each sweep the sweeper cancels and removes exactly the entries
\* whose age exceeds their timeout: such an entry leaves the map in the
\* iteration that visits it, whatever the exchange answers to the cancel and
\* to the forced close; every other entry stays as it was and no cancel is
\* sent for it; and the sweep releases the map only after every entry was
\* visited, so that none whose age exceeds its timeout is left.
AgeExceedsTimeout(timeout) == now - timeout.CreatedAt > timeout.TimeoutDuration

CancelSent(batch, orderID) ==
    \E i \in 1..Len(batch) :
        batch[i].op = "cancel" /\ batch[i].by = "sweeper" /\ batch[i].orderID = orderID

C23_SweepRemovesExactlyExpired ==
    [][ordersMu = "sweeper"
       => LET visited == sweepTodo \ sweepTodo'
          IN  /\ \A id \in DOMAIN pendingOrders :
                    IF id \in visited /\ AgeExceedsTimeout(pendingOrders[id])
                    THEN /\ id \notin DOMAIN pendingOrders'
                         /\ CancelSent(calls', id)
                    ELSE /\ id \in DOMAIN pendingOrders'
                         /\ pendingOrders'[id] = pendingOrders[id]
                         /\ ~CancelSent(calls', id)
              /\ DOMAIN pendingOrders' \subseteq DOMAIN pendingOrders
              /\ ordersMu' = "free"
                 => \A id \in DOMAIN pendingOrders' : ~AgeExceedsTimeout(pendingOrders'[id])]_vars

\* a sweep has removed an entry although the exchange refused both the
\* cancel and the forced close, and has left a younger entry in the map
C23_Witness ==
    /\ ordersMu = "free"
    /\ Len(calls) = 2
    /\ calls[1].op = "cancel" /\ calls[1].by = "sweeper" /\ ~calls[1].ok
    /\ calls[2].op = "order" /\ calls[2].by = "sweeper" /\ ~calls[2].ok
    /\ calls[1].orderID \notin DOMAIN pendingOrders
    /\ \E id \in DOMAIN pendingOrders : ~AgeExceedsTimeout(pendingOrders[id])
    /\ \E sig \in DOMAIN brackets : calls[1].orderID \in brackets[sig].protective

\* C24: an ORDER_TRADE_UPDATE whose status is FILLED, CANCELED or EXPIRED
\* removes exactly that order id from the pending map; an update with another
\* status and every ACCOUNT_UPDATE leave the pending map as it was; no event
\* of the stream changes the recent-signal times.
RemovesFromPending(status) == status \in {"FILLED", "CANCELED", "EXPIRED"}

C24_UpdateRemovesExactlyThatOrder ==
    [][lastEvent' # lastEvent
       => /\ recentSignals' = recentSignals
          /\ IF lastEvent'.EventType = "ORDER_TRADE_UPDATE" /\ RemovesFromPending(lastEvent'.Status)
             THEN /\ DOMAIN pendingOrders' = DOMAIN pendingOrders \ {lastEvent'.OrderID}
                  /\ \A id \in DOMAIN pendingOrders' : pendingOrders'[id] = pendingOrders[id]
             ELSE pendingOrders' = pendingOrders]_vars

\* a CANCELED update took one protective order out of the map and left the
\* other one of the same bracket in it
C24_Witness ==
    /\ lastEvent.EventType = "ORDER_TRADE_UPDATE"
    /\ lastEvent.Status = "CANCELED"
    /\ lastEvent.wasPending
    /\ lastEvent.OrderID \notin DOMAIN pendingOrders
    /\ \E sig \in DOMAIN brackets :
          /\ lastEvent.OrderID \in brackets[sig].protective
          /\ \E id \in brackets[sig].protective : id \in DOMAIN pendingOrders

\* C25: no task sends an exchange request while it holds ordersMu: a step in
\* which the sweeper sends its cancel or its forced close starts with the
\* mutex free, so that a registration or an order update never waits for the
\* exchange to answer the sweeper.
SentBy(task) == calls' # calls /\ \E i \in 1..Len(calls') : calls'[i].by = task

C25_NoRequestUnderMutex ==
    [][SentBy("sweeper") => ordersMu = "free"]_vars

\* C26: a message that carries a valid signal is executed with the account
\* that is the active default of the store when the message is processed:
\* with no active default it ends in the no-default-account error and no
\* request is sent; otherwise it reaches the executor and every position it
\* opens belongs to an active default account.
ReachedExecutor == intake'.outcome \in {"executed", "execute_failed"}

C26_SignalUsesCurrentDefault ==
    [][(intake'.msg # intake.msg /\ intake'.text = SignalText)
       => IF GetDefaultAccount(accounts) = {}
          THEN intake'.outcome = "no_executor" /\ calls' = calls
          ELSE /\ ReachedExecutor
               /\ \A p \in positions' \ positions : p.AccountID \in GetDefaultAccount(accounts)]_vars

\* C27: when the price fetch, the price parse, the exchange-info fetch, the
\* symbol lookup, set-leverage or set-margin-type fails, ExecuteSignal
\* returns an error, submits no order, registers nothing in the pending map
\* and does not record the symbol, so that a signal for the same symbol that
\* follows immediately passes the duplicate check again.
ConditioningFailures ==
    {"price_failed", "price_parse_failed", "info_failed", "symbol_not_found",
     "leverage_failed", "margin_failed"}

OrderSubmitted(batch) == \E i \in 1..Len(batch) : batch[i].op = "order"

C27_ConditioningFailureLeavesNoTrace ==
    [][(sigCount' # sigCount /\ lastExec'.stage \in ConditioningFailures)
       => /\ lastExec'.ret = "error"
          /\ ~OrderSubmitted(calls')
          /\ \A i \in 1..Len(calls') : calls'[i].sig = lastExec'.sig
          /\ pendingOrders' = pendingOrders
          /\ recentSignals' = recentSignals
          /\ ~IsDuplicate(recentSignals', lastExec'.symbol, now')]_vars

\* set-margin-type was refused for a symbol that an earlier signal had
\* traded: four requests went out, the last one failed
C27_Witness ==
    /\ lastExec.stage = "margin_failed"
    /\ lastExec.ret = "error"
    /\ lastExec.sig > 1
    /\ Len(calls) = 4
    /\ calls[4].op = "marginType" /\ ~calls[4].ok /\ calls[4].sig = lastExec.sig
    /\ \E sig \in DOMAIN brackets : brackets[sig].symbol = lastExec.symbol

\* C28: ExecuteSignal never waits on the persistence of order rows: whenever
\* it has a row to hand to the writer the queue has room for it, also when
\* the writer takes nothing from the queue.
C28_HandoverNeverBlocks ==
    sending > 0 => InChannel < LogQueueCapacity

\* C29: after shutdown the timeout sweeper, the dedup reaper and the
\* keep-alive task have ended: no cancel, forced close or keep-alive request
\* is sent, no pending entry is swept and no recent-signal time is reaped.
C29_NothingRunsAfterShutdown ==
    [][lifecycle = "stopped"
       => /\ ~SentBy("sweeper")
          /\ ~SentBy("keepalive")
          /\ pendingOrders' = pendingOrders
          /\ recentSignals' = recentSignals]_vars

\* C30: when the store is closed, every order row that was put into the
\* writer queue before the queue was closed has been taken out and written.
C30_QueueDrainedBeforeStoreCloses ==
    lifecycle = "store_closed" => InChannel = 0

\* C31: for one exchange order the updates are applied in arrival order: once
\* every received update has been processed, the persisted status of each
\* order that received one is the status of the last update received for it.
UpdatesOf(orderID) == {i \in 1..Len(received) : received[i].OrderID = orderID}

LastStatus(orderID) ==
    received[CHOOSE i \in UpdatesOf(orderID) : \A j \in UpdatesOf(orderID) : j <= i].Status

C31_LastUpdateWins ==
    (statusWrites = {} /\ logQueue = <<>>)
    => \A r \in orders :
          UpdatesOf(r.BinanceOrderID[2]) # {} => r.Status = LastStatus(r.BinanceOrderID[2])

\* C32: after the dashboard has changed the signal pattern, a message is
\* matched against the pattern of the configuration: what Parse makes of the
\* text under that pattern decides whether the message is a parse error,
\* no signal, or a signal with the captured symbol
C32_MatchedAgainstConfiguredPattern ==
    [][ (MessageStep /\ tradingEnabled)
        => LET parsed == Parse(configPattern, intake'.text)
           IN  /\ (intake'.outcome = "parse_error") = parsed.err
               /\ (intake'.outcome = "no_signal") = (~parsed.err /\ ~parsed.signal)
               /\ parsed.signal => intake'.symbol = Join(parsed.symbol) ]_vars

\* C33 (as stated): whenever ExecuteSignal returns success after an accepted
\* entry, at least one protective order of the position is in the pending map
ReturnedSuccess == ExecStep /\ EntryAccepted(SentNow) /\ lastExec'.ret = "nil"

C33_SuccessLeavesProtectiveRegistered ==
    [][ ReturnedSuccess
        => \E orderID \in AcceptedProtective(SentNow) : orderID \in DOMAIN pendingOrders' ]_vars

\* C33 (amended): whenever ExecuteSignal returns success after an accepted
\* entry, every protective order that the exchange accepted is in the pending
\* map; with both rejected there is none
C33_AcceptedProtectiveRegistered ==
    [][ ReturnedSuccess
        => /\ AcceptedProtective(SentNow) \subseteq DOMAIN pendingOrders'
           /\ AcceptedProtective(SentNow) = {} => pendingOrders' = pendingOrders ]_vars

\* an execution that returned success with the stop-loss alone accepted, and
\* the stop-loss registered
C33_Witness ==
    /\ lastExec.stage = "executed"
    /\ lastExec.sig \in DOMAIN brackets
    /\ \E orderID \in DOMAIN pendingOrders :
          /\ brackets[lastExec.sig].protective = {orderID}
          /\ pendingOrders[orderID].OrderType = "stop_loss"

\* C34: once a protective order of a position is FILLED, the timeout of its
\* sibling does not make the sweeper submit a MARKET SELL for that position:
\* no sweep step that cancels the sibling also sends a forced close
FilledBracket ==
    {sig \in DOMAIN brackets :
        /\ lastEvent.EventType = "ORDER_TRADE_UPDATE"
        /\ lastEvent.Status = "FILLED"
        /\ lastEvent.wasPending
        /\ lastEvent.OrderID \in brackets[sig].protective}

C34_NoForcedCloseAfterFill ==
    [][ \A sig \in FilledBracket :
           (CancelledIDs(SentNow) \cap brackets[sig].protective # {})
           => ~\E i \in Indices(SentNow) : IsForcedClose(SentNow[i]) ]_vars

\* C35: two set-default (or create-with-is_default) operations on two
\* different active accounts that ran concurrently and have both completed
\* leave exactly one of the two as the active default.  The step is the
\* second statement of the one, the statement before it was the second
\* statement of the other, run while the one was between its two statements.
DefaultOps == {"clear_set_default", "clear_create"}

BothDefaultsCompleted ==
    /\ lastStoreOp.op \in DefaultOps /\ lastStoreOp.ok
    /\ lastStoreOp'.op \in DefaultOps /\ lastStoreOp'.ok
    /\ lastStoreOp'.id # lastStoreOp.id
    /\ clearPending = {lastStoreOp'.id}
    /\ clearPending' = {}
    /\ \A id \in {lastStoreOp.id, lastStoreOp'.id} :
          id \in DOMAIN accounts' /\ accounts'[id].is_active

C35_ConcurrentDefaultsLeaveOne ==
    [][ BothDefaultsCompleted
        => Cardinality(ActiveDefaults(accounts') \cap {lastStoreOp.id, lastStoreOp'.id}) = 1 ]_vars

\* C36: no open Position row references an account that has been deleted:
\* when the row of an account is deleted no open position of that account
\* is in the store, also when the position was written between the
\* open-position count and the DELETE
DeletedNow == DOMAIN accounts \ DOMAIN accounts'

C36_DeletedAccountHasNoOpenPosition ==
    [][ \A id \in DeletedNow :
           ~\E p \in positions' : p.AccountID = id /\ p.Status = "open" ]_vars

\* C37: every dispatched bracket has quantity > 0 and stop prices with
\* 0 < sl_price < entry_price < tp_price; Client.PlaceOrder leaves the
\* quantity or the stop price out of the request when it is not above zero
BracketOrders == {c \in SubmittedOrders : c.by = "execute"}

C37_BracketWellFormed ==
    \A c \in BracketOrders :
       /\ RatLT(RatInt(0), c.quantity)
       /\ c.type = "TAKE_PROFIT_MARKET" => RatLT(RatInt(market.price), c.stopPrice)
       /\ c.type = "STOP_MARKET" => /\ RatLT(RatInt(0), c.stopPrice)
                                    /\ RatLT(c.stopPrice, RatInt(market.price))

\* C38: reading an account (GET) and writing the returned body back
\* unchanged (PUT) leaves the stored account unchanged: api_secret,
\* is_active and is_default keep their values
PutBackStep ==
    /\ response.handler = "get"
    /\ response'.handler = "update"
    /\ \E e \in response.entries, u \in response'.entries :
          u.id = e.id /\ u.secret = e.shown

C38_GetThenPutChangesNothing ==
    [][ PutBackStep => (apiSecrets' = apiSecrets /\ accounts' = accounts) ]_vars

\* C39: no order row is sent to the writer queue after the queue has been
\* closed, neither by an execution in flight during Close nor by one that
\* starts after it
C39_NoSendOnClosedQueue == ~sentOnClosed

\* C40: update(id, draft) for an id that does not exist in the account store
\* changes no row of the store, whatever is_default is in the draft; the ids
\* from nextAccountID on have never been given to a row
UpdateOfMissing ==
    /\ lastStoreOp'.op \in {"update", "clear_update"}
    /\ lastStoreOp'.id >= nextAccountID

C40_UpdateOfMissingChangesNothing ==
    [][ UpdateOfMissing => accounts' = accounts ]_vars

====
